---- MODULE Spec2Model ----
(***************************************************************************)
(* A model of stenalgo: the syllable statistics (src/src/grammar.py), the  *)
(* keyboard layout (src/src/keyboard.py), the chord optimizer's solution   *)
(* extraction (src/src/cpsatsolver.py), the theory builder                 *)
(* (src/dictionary.py), the phoneme order optimizer, the words of the      *)
(* lexicon (src/src/word.py), the discriminating features                  *)
(* (src/src/featureextractor.py, src/src/greedyoptimizer.py) and the       *)
(* reading of the lexicon (src/dictionary.py).                             *)
(*                                                                         *)
(* The specifications: Spec (syllable statistics), SpecCmp (the stroke     *)
(* comparator), SpecOpt (optimizeKeyboard), SpecTheory (buildTheory),      *)
(* SpecOrder (optimizeOrder), SpecWord (Word), SpecGreedy (the assignment  *)
(* loop of greedyOptimizeDiscriminator), SpecCorpus (readCorpus),          *)
(* SpecStarboard (the constructor of Starboard), SpecLex                   *)
(* (lexicalAmbiguityScore), SpecMatrix (generateBiphonemeOrderMatrix),     *)
(* SpecSelect (the greedy loop of extractDiscriminatingFeatures),          *)
(* SpecBase (generateBaseKeymap), SpecStrokes (getPossibleStrokes),        *)
(* SpecFork (a fork/join region), SpecLayout (the layout calls of a        *)
(* Starboard) and SpecReplace (the loop of replaceSyllables).  Each one    *)
(* moves its own variables and leaves the others at rest.                  *)
(*                                                                         *)
(* Strings are sequences of one-character strings: the syllable "ta" is    *)
(* <<"t", "a">>.  Frequencies are floats in the source and exact naturals  *)
(* here.  Positions inside a string are 0-based as in the source; a        *)
(* sequence s is read at position pos as s[pos + 1].                       *)
(***************************************************************************)
EXTENDS Integers, Sequences, FiniteSets, TLC

VARIABLES
    syllable_names,      \* SyllableCollection.syllable_names : name -> Syllable
    phonemeColByPart,    \* Syllable.phonemeColByPart : part -> (phoneme -> frequency)
    biphonemeColByPart,  \* Syllable.biphonemeColByPart : part -> (pair -> frequency)
    allPhonemeCol,       \* Syllable.allPhonemeCol : phoneme -> frequency
    nbCalls,             \* number of updateSyllable calls made so far
    lastSyllable,        \* the syllable_name of the last updateSyllable call, <<"none">> before
    stroke1, stroke2, stroke3,   \* arguments handed to Keyboard.strokeIsLowerThen
    cmpResult,           \* the comparisons made on them (done is FALSE before)
    phonemesAssignedToStroke,    \* the layout of the keyboard
    priorLayout,         \* the layout the keyboard had when optimizeKeyboard was called
    optPC,               \* where optimizeKeyboard is: "idle", "solving", "done"
    PARTS,               \* the syllabic parts optimizeKeyboard has still to solve
    optStatus,           \* the solver's status for each part, "none" before
    optKeys,             \* keysAssignedToPhoneme of each solved part
    words,               \* Dictionary.words
    thPC,                \* "analyse", "build", "done" ("idle": no dictionary)
    thWord, thSyll,      \* the word and the syllable the loops are at
    theory,              \* the theory buildTheory is filling
    biphonemes,          \* the pairs of a BiphonemeCollection and their frequencies
    ordPC,               \* where optimizeOrder is: "start", "scanning", "done", "IndexError"
    bestPermutation, bestScore,  \* the locals of optimizeOrder
    initialScore,        \* the score of the first, shuffled, permutation
    scan,                \* the number of rounds made
    self_bestPermutation, self_bestPermutationScore,  \* the collection's registered best
    selfWord, otherWord, \* two Word objects ("none" before construction)
    wordArgs,            \* the arguments the words are constructed from
    wordCall,            \* the last method called on selfWord, its arguments and its result
    homophones,          \* the words of one theory entry, in the order of its list
    grLemme,             \* the lemmeGramCat of the group the assignment loop works on
    grPC,                \* where greedyOptimizeDiscriminator is: "group", "loop", "done"
    wordIsDiscrminatedByFeature,   \* feature -> the words it discriminates
    orderedFeaturesSelected,       \* the features, the most popular discriminator first
    possibleFeatures,    \* the features the loop has not popped yet
    wordsToAssignToFeature, selectedFeatureWord,   \* the locals of the loop
    corpus,              \* the rows of the lexicon file
    corpusPC,            \* where readCorpus is: "reading", "returned" or the exception raised
    corpusRow,           \* the number of rows read
    readWords,           \* the list readCorpus is filling (its local words)
    nbKeysArg,           \* the nbKeysPerSyllabicPart handed to Starboard.__init__
    starboard,           \* the keyIDinSyllabicPart of the Starboard, or the error raised
    lexWords,            \* the words analyseSyllabification has tracked, in its order
    lexCall,             \* the last lexicalAmbiguityScore call, its arguments and its result
    pairwiseBiphonemeOrder,        \* (phoneme1, phoneme2) -> ">", "<" or "="
    pairwiseBiphonemeOrderScore,   \* (phoneme1, phoneme2) -> score delta
    mxPC,                \* "done" once generateBiphonemeOrderMatrix has run ("idle" before)
    discriminatedBy,     \* wordIsDiscrminatedByFeature inside extractDiscriminatingFeatures
    discriminatedFrom,   \* its wordIsDiscrminatedFromByFeature
    featureItems,        \* the features in the order of the sorted dictionary (line 121)
    featuresSelected,    \* its orderedFeaturesSelected while the greedy loop runs
    leftOverDiscriminatedFrom,   \* feature -> words, a local of the greedy loop
    selPC,                \* where the greedy loop is: "loop", "returned" ("idle": not called)
    strokesCall,    \* the last getPossibleStrokes call, its arguments and its result
    baseLayout,    \* the layout generateBaseKeymap fills
    baseInputs,    \* the collections it has read, one record per position done
    baseParts,   \* the positions generateBaseKeymap has still to seed
    baseCorpus,   \* the size and the shape of the collections the seed reads
    rsArgs,    \* the phonology of the word and the arguments of replaceSyllables
    rsPhono,    \* its local phono
    rsI,    \* its local i
    rsTurn,    \* the parity of the number of turns its loop has made
    rsPC,    \* where replaceSyllables is: "called", "loop", "returned" ("idle": not called)
    layLayout,    \* phonemesAssignedToStroke of a Starboard under direct calls
    layCall,    \* the last layout call, its arguments, the layout before it and what it raised
    layCalls,    \* the number of layout calls made
    resultSize,    \* the size of each worker's result, in chunks
    pipeCapacity,    \* the number of chunks a pipe buffers
    parentPC,    \* the statement the parent is at: start, join or recv of a worker, or done
    workerPC,    \* unstarted, running, sending or exited, per worker
    written,    \* the chunks each worker's send has written
    buffered,    \* the chunks in each pipe
    received    \* the chunks the parent has read from each pipe

syllVars == <<syllable_names, phonemeColByPart, biphonemeColByPart, allPhonemeCol, nbCalls,
              lastSyllable>>
cmpVars == <<stroke1, stroke2, stroke3, cmpResult>>

optVars == <<phonemesAssignedToStroke, priorLayout, optPC, PARTS, optStatus, optKeys>>

thVars == <<words, thPC, thWord, thSyll, theory>>

ordVars == <<biphonemes, ordPC, bestPermutation, bestScore, initialScore, scan,
             self_bestPermutation, self_bestPermutationScore>>

wordVars == <<selfWord, otherWord, wordArgs, wordCall>>

grVars == <<homophones, grLemme, grPC, wordIsDiscrminatedByFeature,
            orderedFeaturesSelected, possibleFeatures, wordsToAssignToFeature,
            selectedFeatureWord>>

corpusVars == <<corpus, corpusPC, corpusRow, readWords>>

kbVars == <<nbKeysArg, starboard>>

lexVars == <<lexWords, lexCall>>

mxVars == <<pairwiseBiphonemeOrder, pairwiseBiphonemeOrderScore, mxPC>>

selVars == <<discriminatedBy, discriminatedFrom, featureItems, featuresSelected,
             leftOverDiscriminatedFrom, selPC>>

stkVars == <<strokesCall>>

baseVars == <<baseLayout, baseInputs, baseParts, baseCorpus>>

rsVars == <<rsArgs, rsPhono, rsI, rsTurn, rsPC>>

layVars == <<layLayout, layCall, layCalls>>

forkVars == <<resultSize, pipeCapacity, parentPC, workerPC, written, buffered, received>>

extVars == <<lexVars, mxVars, selVars, stkVars, baseVars, rsVars, layVars, forkVars>>

restVars == <<wordVars, grVars, corpusVars, kbVars, extVars>>

vars == <<syllVars, cmpVars, optVars, thVars, ordVars, restVars>>

NotSyll == <<cmpVars, optVars, thVars, ordVars, restVars>>
NotCmp == <<syllVars, optVars, thVars, ordVars, restVars>>
NotOpt == <<syllVars, cmpVars, thVars, ordVars, restVars>>
NotOrd == <<syllVars, cmpVars, optVars, thVars, restVars>>
NotWord == <<syllVars, cmpVars, optVars, thVars, ordVars, grVars, corpusVars, kbVars, extVars>>
NotGr == <<syllVars, cmpVars, optVars, thVars, ordVars, wordVars, corpusVars, kbVars, extVars>>
NotCorpus == <<syllVars, cmpVars, optVars, thVars, ordVars, wordVars, grVars, kbVars, extVars>>
NotKb == <<syllVars, cmpVars, optVars, thVars, ordVars, wordVars, grVars, corpusVars, extVars>>
oldVars == <<syllVars, cmpVars, optVars, thVars, ordVars, wordVars, grVars, corpusVars, kbVars>>
NotLex == <<oldVars, mxVars, selVars, stkVars, baseVars, rsVars, layVars, forkVars>>
NotFork == <<oldVars, lexVars, mxVars, selVars, stkVars, baseVars, rsVars, layVars>>
NotLayout == <<oldVars, lexVars, mxVars, selVars, stkVars, baseVars, rsVars, forkVars>>
NotReplace == <<oldVars, lexVars, mxVars, selVars, stkVars, baseVars, layVars, forkVars>>
NotBase == <<oldVars, lexVars, mxVars, selVars, stkVars, rsVars, layVars, forkVars>>
NotStk == <<oldVars, lexVars, mxVars, selVars, baseVars, rsVars, layVars, forkVars>>
NotSel == <<oldVars, lexVars, mxVars, stkVars, baseVars, rsVars, layVars, forkVars>>
NotMx == <<oldVars, lexVars, selVars, stkVars, baseVars, rsVars, layVars, forkVars>>

WordIdle ==
    selfWord = "none" /\ otherWord = "none" /\ wordArgs = "none" /\ wordCall = [op |-> "idle"]

GrIdle ==
    /\ homophones = <<>> /\ grLemme = <<>> /\ grPC = "idle"
    /\ wordIsDiscrminatedByFeature = <<>> /\ orderedFeaturesSelected = <<>>
    /\ possibleFeatures = <<>> /\ wordsToAssignToFeature = <<>> /\ selectedFeatureWord = <<>>

CorpusIdle == corpus = <<>> /\ corpusPC = "idle" /\ corpusRow = 0 /\ readWords = <<>>

KbIdle == nbKeysArg = "none" /\ starboard = "none"

LexIdle == lexWords = <<>> /\ lexCall = [op |-> "idle"]

\* BiphonemeCollection.__init__ (grammar.py 245-246): two empty dictionaries
MxIdle ==
    /\ pairwiseBiphonemeOrder = [x \in {} |-> 0]
    /\ pairwiseBiphonemeOrderScore = [x \in {} |-> 0]
    /\ mxPC = "idle"

SelIdle ==
    /\ discriminatedBy = <<>> /\ discriminatedFrom = <<>> /\ featureItems = <<>>
    /\ featuresSelected = <<>> /\ leftOverDiscriminatedFrom = <<>> /\ selPC = "idle"

StkIdle == strokesCall = [op |-> "idle"]

BaseIdle == baseLayout = <<>> /\ baseInputs = <<>> /\ baseParts = <<>> /\ baseCorpus = <<>>

ReplaceIdle == rsArgs = <<>> /\ rsPhono = <<>> /\ rsI = 0 /\ rsTurn = 0 /\ rsPC = "idle"

LayoutIdle == layLayout = <<>> /\ layCall = [op |-> "idle"] /\ layCalls = 0

ForkIdle == resultSize = <<>> /\ pipeCapacity = 0 /\ parentPC = <<"idle", 0>> /\ workerPC = <<>> /\ written = <<>> /\ buffered = <<>> /\ received = <<>>

ExtIdle == LexIdle /\ MxIdle /\ SelIdle /\ StkIdle /\ BaseIdle /\ ReplaceIdle /\ LayoutIdle /\ ForkIdle

RestIdle == WordIdle /\ GrIdle /\ CorpusIdle /\ KbIdle /\ ExtIdle

(***************************************************************************)
(* Bounds of the model.                                                    *)
(***************************************************************************)
MaxSyllLen == 3     \* longest syllable name ingested
MaxFreq == 1        \* a call adds the frequency MaxFreq - 1 or MaxFreq
MaxCalls == 2       \* number of updateSyllable calls
MaxKey == 3         \* strokes compared by strokeIsLowerThen use the keys 0..MaxKey
MaxWords == 2       \* number of words of the dictionary
MaxScans == 2       \* rounds of optimizeOrder (windowScans, 400 in the code)

(***************************************************************************)
(* Generic helpers.                                                        *)
(***************************************************************************)
Range(s) == {s[i] : i \in DOMAIN s}

Count(x, s) == Cardinality({i \in DOMAIN s : s[i] = x})

RECURSIVE SumOver(_, _)
SumOver(S, f) ==
    IF S = {} THEN 0
    ELSE LET x == CHOOSE y \in S : TRUE IN f[x] + SumOver(S \ {x}, f)

RECURSIVE Flatten(_)
Flatten(ss) == IF ss = <<>> THEN <<>> ELSE ss[1] \o Flatten(Tail(ss))

\* The non-empty strings over A of length at most n
StringsUpTo(A, n) == UNION {[1..k -> A] : k \in 1..n}

(***************************************************************************)
(* Phoneme: the alphabets (a subset of the source's X-Sampa alphabets).    *)
(***************************************************************************)
nucleusPhonemes == {"a"}
consonantPhonemes == {"t", "R"}

SyllabicParts == <<"onset", "nucleus", "coda">>
Parts == Range(SyllabicParts)

isVowel(p) == p \in nucleusPhonemes

(***************************************************************************)
(* PhonemeCollection.getPhoneme / BiphonemeCollection.getBiphoneme: get    *)
(* the entry of a collection, adding it with frequency 0 when missing.     *)
(***************************************************************************)
getPhoneme(col, key) == IF key \in DOMAIN col THEN col ELSE col @@ (key :> 0)

\* getPhoneme(...).increaseFrequency(frequency)
increaseFrequency(col, key, frequency) ==
    [getPhoneme(col, key) EXCEPT ![key] = @ + frequency]

\* Mutant: the increment is made once per distinct entry, not once per occurrence.
increaseEachDistinct(col, keys, frequency) ==
    LET c0 == col @@ [k \in Range(keys) |-> 0]
    IN  [k \in DOMAIN c0 |-> IF k \in Range(keys) THEN c0[k] + frequency ELSE c0[k]]

\* for x in keys: x.increaseFrequency(frequency), one increment per occurrence
RECURSIVE increaseEach(_, _, _)
increaseEach(col, keys, frequency) ==
    IF keys = <<>> THEN col
    ELSE increaseEach(increaseFrequency(col, Head(keys), frequency), Tail(keys), frequency)

(***************************************************************************)
(* Syllable.__init__, the loop over the phonemes (grammar.py 441-473):     *)
(* acc carries firstVowelPos, lastVowelPos and the three phoneme lists.    *)
(***************************************************************************)
PartitionStep(acc, pos, phoneme) ==
    LET a1 == IF acc.firstVowelPos = -1 /\ ~isVowel(phoneme)
                 THEN [acc EXCEPT !.onset = Append(@, phoneme)]
              ELSE IF acc.firstVowelPos # -1 /\ ~isVowel(phoneme)
                 THEN [acc EXCEPT !.coda = Append(@, phoneme)]
              ELSE acc
    IN  IF isVowel(phoneme)
           THEN [a1 EXCEPT !.nucleus = Append(@, phoneme),
                           !.firstVowelPos = IF @ = -1 THEN pos ELSE @,
                           !.lastVowelPos = pos]
           ELSE a1

RECURSIVE PartitionLoop(_, _, _)
PartitionLoop(phonemes, pos, acc) ==
    IF pos >= Len(phonemes) THEN acc
    ELSE PartitionLoop(phonemes, pos + 1, PartitionStep(acc, pos, phonemes[pos + 1]))

\* Mutant: firstVowelPos starts at 0, so that leading consonants count as coda.
PartitionFromZero(phonemes) ==
    PartitionLoop(phonemes, 0,
        [firstVowelPos |-> 0, lastVowelPos |-> -1,
         onset |-> <<>>, nucleus |-> <<>>, coda |-> <<>>])

Partition(phonemes) ==
    PartitionLoop(phonemes, 0,
        [firstVowelPos |-> -1, lastVowelPos |-> -1,
         onset |-> <<>>, nucleus |-> <<>>, coda |-> <<>>])

(***************************************************************************)
(* The nested loops that register the biphonemes (grammar.py 475-512):     *)
(* every pair (phonemes[i], phonemes[j]) with lo <= i < j < hi, in the     *)
(* order the loops visit them.                                             *)
(***************************************************************************)
RECURSIVE PairsOfSlice(_, _, _, _)
PairsOfSlice(phonemes, i, j, hi) ==
    IF i >= hi - 1 THEN <<>>
    ELSE IF j >= hi THEN PairsOfSlice(phonemes, i + 1, i + 2, hi)
    ELSE <<<<phonemes[i + 1], phonemes[j + 1]>>>> \o PairsOfSlice(phonemes, i, j + 1, hi)

OnsetBiphonemes(phonemes, firstVowelPos) ==
    IF firstVowelPos >= 2 THEN PairsOfSlice(phonemes, 0, 1, firstVowelPos) ELSE <<>>

CodaBiphonemes(phonemes, lastVowelPos) ==
    IF lastVowelPos <= Len(phonemes) - 3
       THEN PairsOfSlice(phonemes, lastVowelPos + 1, lastVowelPos + 2, Len(phonemes))
       ELSE <<>>

NucleusBiphonemes(phonemes, firstVowelPos, lastVowelPos) ==
    IF firstVowelPos < lastVowelPos
       THEN PairsOfSlice(phonemes, firstVowelPos, firstVowelPos + 1, lastVowelPos + 1)
       ELSE <<>>

(***************************************************************************)
(* Syllable.__init__: the Syllable object built for a phoneme string.      *)
(***************************************************************************)
SyllableNew(phoneme_names, spelling, frequency) ==
    LET p == Partition(phoneme_names)
    IN  [name |-> phoneme_names,
         frequency |-> frequency,
         spellings |-> (spelling :> frequency),
         phonemes |-> phoneme_names,
         phonemesByPart |-> [part \in Parts |->
             CASE part = "onset" -> p.onset
               [] part = "nucleus" -> p.nucleus
               [] part = "coda" -> p.coda],
         biphonemesByPart |-> [part \in Parts |->
             CASE part = "onset" -> OnsetBiphonemes(phoneme_names, p.firstVowelPos)
               [] part = "nucleus" -> NucleusBiphonemes(phoneme_names, p.firstVowelPos, p.lastVowelPos)
               [] part = "coda" -> CodaBiphonemes(phoneme_names, p.lastVowelPos)]]

(***************************************************************************)
(* Syllable.increaseSpellingFrequency and Syllable.increaseFrequency       *)
(* (grammar.py 525-540), on the syllable and on the class collections.     *)
(***************************************************************************)
increaseSpellingFrequency(s, spelling, frequency) ==
    [s EXCEPT !.spellings =
                  IF spelling \in DOMAIN @
                     THEN [@ EXCEPT ![spelling] = @ + frequency]
                     ELSE @ @@ (spelling :> frequency),
              !.frequency = @ + frequency]

(***************************************************************************)
(* SyllableCollection.updateSyllable (grammar.py 723-736).  The Syllable   *)
(* constructor is called without a frequency, so it registers the phonemes *)
(* and biphonemes with frequency 0; increaseSpellingFrequency then adds    *)
(* addedfrequency to the syllable, to each entry of phonemes, of           *)
(* phonemesByPart and of biphonemesByPart.                                 *)
(***************************************************************************)
updateSyllable(syllable_name, spelling, addedfrequency) ==
    LET isNew == syllable_name \notin DOMAIN syllable_names
        s == IF isNew THEN SyllableNew(syllable_name, spelling, 0)
             ELSE syllable_names[syllable_name]
        all0 == IF isNew THEN increaseEach(allPhonemeCol, s.phonemes, 0) ELSE allPhonemeCol
        ph0 == [part \in Parts |->
                  IF isNew THEN increaseEach(phonemeColByPart[part], s.phonemesByPart[part], 0)
                  ELSE phonemeColByPart[part]]
        bi0 == [part \in Parts |->
                  IF isNew THEN increaseEach(biphonemeColByPart[part], s.biphonemesByPart[part], 0)
                  ELSE biphonemeColByPart[part]]
    IN  /\ syllable_names' = [n \in DOMAIN syllable_names \cup {syllable_name} |->
               IF n = syllable_name
                  THEN increaseSpellingFrequency(s, spelling, addedfrequency)
                  ELSE syllable_names[n]]
        /\ allPhonemeCol' = increaseEach(all0, s.phonemes, addedfrequency)
        /\ phonemeColByPart' = [part \in Parts |->
               increaseEach(ph0[part], s.phonemesByPart[part], addedfrequency)]
        /\ biphonemeColByPart' = [part \in Parts |->
               increaseEach(bi0[part], s.biphonemesByPart[part], addedfrequency)]
        /\ nbCalls' = nbCalls + 1
        /\ lastSyllable' = syllable_name

(***************************************************************************)
(* Keyboard.strokeIsLowerThen (keyboard.py 185-206): the comparator used   *)
(* to sort lists of strokes.  A stroke is a tuple of key indexes.          *)
(***************************************************************************)
Middle(stroke) == SubSeq(stroke, 2, Len(stroke) - 1)    \* stroke[1:-1]

RECURSIVE strokeIsLowerThen(_, _, _)
strokeIsLowerThen(s1, s2, recurse) ==
    IF s1 = <<>> /\ ~(s2 = <<>>) THEN -1
    ELSE IF s2 = <<>> THEN 1
    ELSE IF s1[1] < s2[1] THEN -1
    ELSE IF s1[1] > s2[1] THEN 1
    ELSE IF s1[Len(s1)] < s2[Len(s2)] THEN -1
    ELSE IF s1[Len(s1)] > s2[Len(s2)] THEN 1
    ELSE strokeIsLowerThen(Middle(s1), Middle(s2), recurse + 1)


(***************************************************************************)
(* The Starboard keyboard (keyboard.py 294-366): its keys, the keypresses  *)
(* each finger can make, and the split of the allowed keys between the     *)
(* syllabic parts made by the constructor.                                 *)
(***************************************************************************)
InSeq(x, s) == \E i \in 1..Len(s) : s[i] = x
\* The bound n of a slice s[:n] or s[n:]: a negative n counts from the end
SliceBound(s, n) ==
    IF n < 0 THEN (IF Len(s) + n < 0 THEN 0 ELSE Len(s) + n)
    ELSE IF n < Len(s) THEN n ELSE Len(s)
Take(s, n) == SubSeq(s, 1, SliceBound(s, n))              \* s[:n]
Drop(s, n) == SubSeq(s, SliceBound(s, n) + 1, Len(s))     \* s[n:]
Reverse(s) == [i \in 1..Len(s) |-> s[Len(s) + 1 - i]]

reservedKeys == <<0, 1, 10, 15>>
possibleKeys == [i \in 1..26 |-> i - 1]

fingers == <<"leftPinky", "leftRing", "leftMiddle", "leftIndex", "leftThumb",
             "rightThumb", "rightIndex", "rightMiddle", "rightRing", "rightPinky">>

possibleKeypress ==
    [leftPinky   |-> << <<>>, <<0>>, <<1>>, <<2>>, <<3>>, <<0, 1>>, <<2, 3>>, <<0, 2>>,
                        <<1, 3>>, <<0, 1, 2, 3>> >>,
     leftRing    |-> << <<>>, <<4>>, <<5>>, <<4, 5>> >>,
     leftMiddle  |-> << <<>>, <<6>>, <<7>>, <<6, 7>> >>,
     leftIndex   |-> << <<>>, <<8>>, <<9>>, <<10>>, <<8, 9>>, <<8, 10>>, <<9, 10>>,
                        <<8, 9, 10>> >>,
     leftThumb   |-> << <<>>, <<11>>, <<12>>, <<11, 12>> >>,
     rightThumb  |-> << <<>>, <<13>>, <<14>>, <<13, 14>> >>,
     rightIndex  |-> << <<>>, <<15>>, <<16>>, <<17>>, <<16, 17>>, <<15, 16>>, <<15, 17>>,
                        <<15, 16, 17>> >>,
     rightMiddle |-> << <<>>, <<18>>, <<19>>, <<18, 19>> >>,
     rightRing   |-> << <<>>, <<20>>, <<21>>, <<20, 21>> >>,
     rightPinky  |-> << <<>>, <<22>>, <<23>>, <<24>>, <<25>>, <<22, 23>>, <<24, 25>>,
                        <<22, 24>>, <<23, 25>>, <<22, 23, 24, 25>> >>]

maxKeysPerPhoneme == [onset |-> 5, nucleus |-> 4, coda |-> 5]

allowedKeys == SelectSeq(possibleKeys, LAMBDA k : ~InSeq(k, reservedKeys))

RECURSIVE SumSizes(_)
SumSizes(nb) == IF nb = <<>> THEN 0 ELSE nb[1][2] + SumSizes(Tail(nb))

\* A slicing that never removes the keys it has handed out
RECURSIVE SlicePartsNoAdvance(_, _, _)
SlicePartsNoAdvance(nb, unassignedKeys, acc) ==
    IF nb = <<>> THEN acc
    ELSE SlicePartsNoAdvance(Tail(nb), unassignedKeys,
                             (nb[1][1] :> Take(unassignedKeys, nb[1][2])) @@ acc)

RECURSIVE SliceParts(_, _, _)
SliceParts(nb, unassignedKeys, acc) ==
    IF nb = <<>> THEN acc
    ELSE SliceParts(Tail(nb), Drop(unassignedKeys, nb[1][2]),
                    (nb[1][1] :> Take(unassignedKeys, nb[1][2])) @@ acc)

\* Starboard.__init__: the keyIDinSyllabicPart of the new keyboard, or the
\* ValueError when the sizes do not add up to the number of allowed keys
StarboardInit(nbKeysPerSyllabicPart) ==
    IF Len(allowedKeys) # SumSizes(nbKeysPerSyllabicPart) THEN "ValueError"
    ELSE SliceParts(nbKeysPerSyllabicPart, allowedKeys, <<>>)

\* The keyboard of this model: two keys for the onset, two for the coda
nbKeysPerSyllabicPart == << <<"onset", 2>>, <<"nucleus", 18>>, <<"coda", 2>> >>
keyIDinSyllabicPart == StarboardInit(nbKeysPerSyllabicPart)

getSinglekeyKeypress(syllabicPart) ==
    [i \in 1..Len(keyIDinSyllabicPart[syllabicPart]) |->
        <<keyIDinSyllabicPart[syllabicPart][i]>>]

KeysInPart(keyPress, syllabicPart) ==
    SelectSeq(keyPress, LAMBDA k : InSeq(k, keyIDinSyllabicPart[syllabicPart]))

getFingersInSyllabicPart(syllabicPart) ==
    SelectSeq(fingers, LAMBDA finger :
        \E i \in 1..Len(possibleKeypress[finger]) :
            0 < Len(KeysInPart(possibleKeypress[finger][i], syllabicPart)))

\* buildStrokes: the strokes in the order the recursion finds them (the code
\* inserts each at the front of the accumulator, getPossibleStrokes reverses)
RECURSIVE buildStrokes(_, _, _, _), buildStrokesLoop(_, _, _, _, _)
buildStrokes(fs, nbKeysLeft, stroke, syllabicPart) ==
    IF Len(fs) = 0 \/ nbKeysLeft <= 0
    THEN IF Len(stroke) > 0 /\ nbKeysLeft = 0 THEN <<stroke>> ELSE <<>>
    ELSE buildStrokesLoop(fs, nbKeysLeft, stroke, syllabicPart, 1)

buildStrokesLoop(fs, nbKeysLeft, stroke, syllabicPart, i) ==
    LET fingerKeypress == possibleKeypress[fs[1]]
    IN  IF i > Len(fingerKeypress) THEN <<>>
        ELSE LET keyPress == fingerKeypress[i]
                 keysInPart == KeysInPart(keyPress, syllabicPart)
                 found ==
                    IF Len(keyPress) = 0
                    THEN buildStrokes(Tail(fs), nbKeysLeft, stroke, syllabicPart)
                    ELSE IF Len(keyPress) <= nbKeysLeft /\ Len(keysInPart) = Len(keyPress)
                    THEN buildStrokes(Tail(fs), nbKeysLeft - Len(keyPress),
                                      stroke \o keysInPart, syllabicPart)
                    ELSE <<>>
             IN  found \o buildStrokesLoop(fs, nbKeysLeft, stroke, syllabicPart, i + 1)

getPossibleStrokes(syllabicPart, nbKeysInStroke) ==
    IF nbKeysInStroke = 1 THEN getSinglekeyKeypress(syllabicPart)
    ELSE Reverse(buildStrokes(getFingersInSyllabicPart(syllabicPart), nbKeysInStroke,
                              <<>>, syllabicPart))

(***************************************************************************)
(* The layout, phonemesAssignedToStroke: a dict from strokes to lists of   *)
(* phonemes, kept in insertion order; here the sequence of its items.      *)
(***************************************************************************)
StrokeIndex(layout, stroke) ==
    IF \E i \in 1..Len(layout) : layout[i][1] = stroke
    THEN CHOOSE i \in 1..Len(layout) : layout[i][1] = stroke
    ELSE 0

clearLayout == <<>>

addToLayout(layout, stroke, phoneme) ==
    LET i == StrokeIndex(layout, stroke)
    IN  IF i = 0 THEN Append(layout, <<stroke, <<phoneme>>>>)
        ELSE [layout EXCEPT ![i] = <<stroke, Append(layout[i][2], phoneme)>>]

getPhonemesOfStroke(layout, stroke) ==
    LET i == StrokeIndex(layout, stroke)
    IN  IF i = 0 THEN <<>> ELSE layout[i][2]

StrokesOf(items) == [i \in 1..Len(items) |-> items[i][1]]

getStrokesOfPhoneme(layout, phoneme, syllabicPart) ==
    StrokesOf(SelectSeq(layout, LAMBDA item :
        /\ InSeq(item[1][1], keyIDinSyllabicPart[syllabicPart])
        /\ InSeq(phoneme, item[2])))

\* The keys appended for the phonemes of one part, then part after part
RECURSIVE KeysOfPhonemes(_, _, _)
KeysOfPhonemes(layout, phonemes, syllabicPart) ==
    IF phonemes = <<>> THEN <<>>
    ELSE LET strokesOfPhoneme == getStrokesOfPhoneme(layout, phonemes[1], syllabicPart)
         IN  strokesOfPhoneme[1] \o KeysOfPhonemes(layout, Tail(phonemes), syllabicPart)

getStrokeOfSyllableByPart(layout, phonemesByPart) ==
    KeysOfPhonemes(layout, phonemesByPart["onset"], "onset")
        \o KeysOfPhonemes(layout, phonemesByPart["nucleus"], "nucleus")
        \o KeysOfPhonemes(layout, phonemesByPart["coda"], "coda")

(***************************************************************************)
(* optimizeKeyboard (cpsatsolver.py): one CP-SAT model per syllabic part.  *)
(* For a phoneme p, S[<<p, stroke>>] is strokeIsAssignedToPhoneme and      *)
(* K[<<p, key>>] is keyIsAssignedToPhoneme.  The solver returns a status   *)
(* and, when it has a solution, values that satisfy the constraints.       *)
(***************************************************************************)
OptPhonemesByPart == [onset |-> <<"R", "t">>, nucleus |-> <<"a">>, coda |-> <<"R", "t">>]

SortedStrokes(part) ==
    SortSeq(Flatten([n \in 1..4 |-> getPossibleStrokes(part, n)]),
            LAMBDA a, b : strokeIsLowerThen(a, b, 0) < 0)

\* The parts optimizeKeyboard is asked to optimize in this model
OptimizableParts == {"onset", "coda"}
strokesInPart == [part \in OptimizableParts |-> SortedStrokes(part)]

NbKeysAssigned(K, phoneme, part) ==
    Cardinality({k \in Range(keyIDinSyllabicPart[part]) : K[<<phoneme, k>>]})

\* Mutant: the keys outside the assigned stroke are not forced off.
StrokeForcesKeysNoDissociation(S, K, phoneme, stroke, part) ==
    S[<<phoneme, stroke>>] => \A key \in Range(stroke) : K[<<phoneme, key>>]

\* An assigned stroke turns on each of its keys and turns off every other key
StrokeForcesKeys(S, K, phoneme, stroke, part) ==
    S[<<phoneme, stroke>>] =>
        /\ \A key \in Range(stroke) : K[<<phoneme, key>>]
        /\ \A k \in Range(keyIDinSyllabicPart[part]) \ Range(stroke) : ~K[<<phoneme, k>>]

\* A key that is off has a stroke containing it that is not assigned
KeyOffFreesStroke(S, K, phoneme, key, part) ==
    ~K[<<phoneme, key>>] =>
        \E s2 \in Range(strokesInPart[part]) : InSeq(key, s2) /\ ~S[<<phoneme, s2>>]

ExactlyOneStroke(S, phoneme, part) ==
    Cardinality({s \in Range(strokesInPart[part]) : S[<<phoneme, s>>]}) = 1

Constraints(S, K, part) ==
    \A phoneme \in Range(OptPhonemesByPart[part]) :
        /\ NbKeysAssigned(K, phoneme, part) >= 1
        /\ NbKeysAssigned(K, phoneme, part) <= maxKeysPerPhoneme[part]
        /\ \A stroke \in Range(strokesInPart[part]) :
               /\ StrokeForcesKeys(S, K, phoneme, stroke, part)
               /\ \A key \in Range(keyIDinSyllabicPart[part]) :
                      KeyOffFreesStroke(S, K, phoneme, key, part)
        /\ ExactlyOneStroke(S, phoneme, part)

Solutions(part) ==
    LET P == Range(OptPhonemesByPart[part])
    IN  {sol \in [S : [P \X Range(strokesInPart[part]) -> BOOLEAN],
                  K : [P \X Range(keyIDinSyllabicPart[part]) -> BOOLEAN]] :
            Constraints(sol.S, sol.K, part)}

SolutionsOfPart == [part \in OptimizableParts |-> Solutions(part)]

\* The extraction loop: strokes in sorted order, phonemes in alphabet order.  The
\* call passes Syllable.getSortedPhonemesNames(part) as a third argument, which
\* addToLayout of keyboard.py does not take; the stroke and the phoneme are added
\* as keyboard.py adds them.
RECURSIVE ExtractPhonemes(_, _, _, _)
ExtractPhonemes(layout, S, stroke, phonemes) ==
    IF phonemes = <<>> THEN layout
    ELSE ExtractPhonemes(IF S[<<phonemes[1], stroke>>]
                         THEN addToLayout(layout, stroke, phonemes[1]) ELSE layout,
                         S, stroke, Tail(phonemes))

RECURSIVE ExtractStrokes(_, _, _, _)
ExtractStrokes(layout, S, strokes, part) ==
    IF strokes = <<>> THEN layout
    ELSE ExtractStrokes(ExtractPhonemes(layout, S, strokes[1], OptPhonemesByPart[part]),
                        S, Tail(strokes), part)

keysAssignedToPhoneme(K, part) ==
    [p \in Range(OptPhonemesByPart[part]) |->
        SelectSeq(keyIDinSyllabicPart[part], LAMBDA k : K[<<p, k>>])]

(***************************************************************************)
(* BiphonemeCollection.optimizeOrder and scorePermutation (grammar.py      *)
(* 282-349).  The collection is the map from its pairs to their            *)
(* frequencies; a permutation is a sequence of phonemes.  Positions are    *)
(* 0-based in the code: position k of a string s is s[k + 1] here.         *)
(***************************************************************************)
windowSize == 4
maxShuffleSize == 7

getPhonemesNames(col) == {pair[1] : pair \in DOMAIN col} \cup {pair[2] : pair \in DOMAIN col}

index(permutation, x) == (CHOOSE i \in 1..Len(permutation) : permutation[i] = x) - 1

PairScore(col, permutation) ==
    [pair \in DOMAIN col |->
        IF index(permutation, pair[1]) < index(permutation, pair[2])
        THEN col[pair] ELSE 0 - col[pair]]

scorePermutation(col, permutation) == SumOver(DOMAIN col, PairScore(col, permutation))

\* The orders np.random.shuffle can leave a list of the elements of S in
RECURSIVE Shuffles(_)
Shuffles(S) ==
    IF S = {} THEN {<<>>}
    ELSE UNION {{<<x>> \o p : p \in Shuffles(S \ {x})} : x \in S}

\* The rotation of shuffleSize phonemes along randOrder
RECURSIVE MutateLoop(_, _, _, _, _)
MutateLoop(mutatedPermutationList, bestPerm, randOrder, i, shuffleSize) ==
    IF i >= shuffleSize THEN mutatedPermutationList
    ELSE MutateLoop([mutatedPermutationList EXCEPT
                        ![randOrder[i] + 1] = bestPerm[randOrder[i + 1] + 1]],
                    bestPerm, randOrder, i + 1, shuffleSize)

Mutate(bestPerm, randOrder, shuffleSize) ==
    LET tmp == bestPerm[randOrder[1] + 1]
    IN  [MutateLoop(bestPerm, bestPerm, randOrder, 1, shuffleSize)
            EXCEPT ![randOrder[shuffleSize] + 1] = tmp]

\* itertools.permutations: the orderings of a sequence in lexicographic order of positions
Without(s, i) == SubSeq(s, 1, i - 1) \o SubSeq(s, i + 1, Len(s))

RECURSIVE permutations(_)
permutations(s) ==
    IF s = <<>> THEN << <<>> >>
    ELSE Flatten([i \in 1..Len(s) |->
            LET rest == permutations(Without(s, i))
            IN  [j \in 1..Len(rest) |-> <<s[i]>> \o rest[j]]])

\* chain(range(n - windowSize), range(n - windowSize, 0, -1))
WindowPositions(n) ==
    LET m == IF n > windowSize THEN n - windowSize ELSE 0
    IN  [i \in 1..m |-> i - 1] \o [i \in 1..m |-> m + 1 - i]

\* The permutations tested for one position of the window, in the order tested
WindowPermutations(mutatedPermutation, pos) ==
    LET subPhonemes == SubSeq(mutatedPermutation, pos + 1, pos + windowSize)
        subps == permutations(subPhonemes)
    IN  [j \in 1..Len(subps) |->
            SubSeq(mutatedPermutation, 1, pos) \o subps[j]
                \o SubSeq(mutatedPermutation, pos + windowSize + 1, Len(mutatedPermutation))]

\* The permutations tested in one scan: position after position
TestedPermutations(mutatedPermutation) ==
    LET positions == WindowPositions(Len(mutatedPermutation))
    IN  Flatten([k \in 1..Len(positions) |->
                    WindowPermutations(mutatedPermutation, positions[k])])

\* Mutant: the comparison with the best score is lost, the last permutation tested wins.
RECURSIVE WindowScanKeepLast(_, _, _, _)
WindowScanKeepLast(scores, tested, bestPerm, bestScoreSoFar) ==
    IF tested = <<>> THEN [perm |-> bestPerm, score |-> bestScoreSoFar]
    ELSE LET score == scores[tested[1]]
         IN  IF score > bestScoreSoFar \/ Len(tested) = 1
             THEN WindowScanKeepLast(scores, Tail(tested), tested[1], score)
             ELSE WindowScanKeepLast(scores, Tail(tested), bestPerm, bestScoreSoFar)

\* Each tested permutation is scored (scores[p] is scorePermutation(p)); if
\* score > bestScore it becomes the best one
RECURSIVE WindowScan(_, _, _, _)
WindowScan(scores, tested, bestPerm, bestScoreSoFar) ==
    IF tested = <<>> THEN [perm |-> bestPerm, score |-> bestScoreSoFar]
    ELSE LET score == scores[tested[1]]
         IN  IF score > bestScoreSoFar
             THEN WindowScan(scores, Tail(tested), tested[1], score)
             ELSE WindowScan(scores, Tail(tested), bestPerm, bestScoreSoFar)

Alphabet == nucleusPhonemes \cup consonantPhonemes
\* The syllable names ingested are written with these phonemes
IngestedPhonemes == {"t", "a"}
Spellings == {"s1"}

EmptyCol == [x \in {} |-> 0]

SyllInit ==
    /\ syllable_names = [x \in {} |-> 0]
    /\ phonemeColByPart = [part \in Parts |-> EmptyCol]
    /\ biphonemeColByPart = [part \in Parts |-> EmptyCol]
    /\ allPhonemeCol = EmptyCol
    /\ nbCalls = 0
    /\ lastSyllable = <<"none">>

UpdateSyllable ==
    \E syllable_name \in StringsUpTo(IngestedPhonemes, MaxSyllLen), spelling \in Spellings,
       addedfrequency \in (MaxFreq - 1)..MaxFreq :
        /\ nbCalls < MaxCalls
        /\ updateSyllable(syllable_name, spelling, addedfrequency)
        /\ UNCHANGED NotSyll

(***************************************************************************)
(* Claims about the syllable statistics, checked under Spec.               *)
(***************************************************************************)
Syllables == {syllable_names[n] : n \in DOMAIN syllable_names}

StoredFrequency(col, key) == IF key \in DOMAIN col THEN col[key] ELSE 0

\* Sum over all syllables s of (occurrences of p in s's list for part) x frequency(s)
WeightedOccurrences(p, part) ==
    SumOver(DOMAIN syllable_names,
            [n \in DOMAIN syllable_names |->
                Count(p, syllable_names[n].phonemesByPart[part]) * syllable_names[n].frequency])

HasVowel(name) == \E i \in DOMAIN name : isVowel(name[i])

\* C1: frequency conservation.  After any sequence of updateSyllable calls, for
\* every part and every phoneme p, the frequency stored for p in that part's
\* PhonemeCollection is the sum over all syllables s of (number of occurrences of
\* p in s's phoneme list for the part) x frequency(s).
C1_FrequencyConservation ==
    \A part \in Parts : \A p \in Alphabet :
        StoredFrequency(phonemeColByPart[part], p) = WeightedOccurrences(p, part)

\* C1 witness: the only syllable observed holds the same phoneme twice in its
\* onset and was observed twice (frequency 2 in all): the onset frequency of "t"
\* is 2 x 2.
C1_Witness ==
    /\ nbCalls = 2
    /\ <<"t", "t", "a">> \in DOMAIN syllable_names
    /\ syllable_names[<<"t", "t", "a">>].frequency = 2
    /\ DOMAIN syllable_names = {<<"t", "t", "a">>}
    /\ phonemeColByPart["onset"]["t"] = 4

\* C2: syllable partition.  For every Syllable built from any phoneme string,
\* onset holds no vowel, nucleus holds only vowels, coda holds no vowel, and
\* onset + nucleus + coda (in order) is the syllable's name: the nucleus is one
\* contiguous run of vowels with the onset before it and the coda after it.
C2_SyllablePartition ==
    \A s \in Syllables :
        /\ \A i \in DOMAIN s.phonemesByPart["onset"] : ~isVowel(s.phonemesByPart["onset"][i])
        /\ \A i \in DOMAIN s.phonemesByPart["nucleus"] : isVowel(s.phonemesByPart["nucleus"][i])
        /\ \A i \in DOMAIN s.phonemesByPart["coda"] : ~isVowel(s.phonemesByPart["coda"][i])
        /\ s.phonemesByPart["onset"] \o s.phonemesByPart["nucleus"] \o s.phonemesByPart["coda"]
               = s.name

\* C3 as stated: a syllable without a vowel is rejected, so that no syllable of
\* the collection has an empty nucleus.
C3_NoVowelRejected ==
    \A n \in DOMAIN syllable_names : HasVowel(n)

\* C3 as amended: ingesting a syllable that contains no vowel is not rejected.
\* After updateSyllable is called with such a name the syllable is in the
\* collection, with an empty nucleus, an empty coda and all of its phonemes in
\* the onset.
C3_NoVowelAccepted ==
    (lastSyllable # <<"none">> /\ ~HasVowel(lastSyllable)) =>
        /\ lastSyllable \in DOMAIN syllable_names
        /\ syllable_names[lastSyllable].phonemesByPart["nucleus"] = <<>>
        /\ syllable_names[lastSyllable].phonemesByPart["coda"] = <<>>
        /\ syllable_names[lastSyllable].phonemesByPart["onset"] = lastSyllable

\* C3 witness: updateSyllable has just ingested the vowel-less syllable "tt".
C3_Witness ==
    /\ lastSyllable = <<"t", "t">>
    /\ <<"t", "t">> \in DOMAIN syllable_names
    /\ syllable_names[<<"t", "t">>].frequency = 1


(***************************************************************************)
(* The comparator applied to strokes: sorted tuples of distinct keys.      *)
(***************************************************************************)
\* The keys of a set in ascending order
RECURSIVE SortedTuple(_)
SortedTuple(K) ==
    IF K = {} THEN <<>>
    ELSE LET m == CHOOSE x \in K : \A y \in K : x <= y
         IN  <<m>> \o SortedTuple(K \ {m})

ComparedStrokes ==
    {SortedTuple(K) : K \in (SUBSET (0..MaxKey)) \ {{}}}
        \cup {<<0, 1, 10>>, <<0, 2, 10>>}

NotCompared == [done |-> FALSE, ab |-> 0, ba |-> 0, bc |-> 0, ac |-> 0]

CmpIdle ==
    /\ stroke1 = <<>> /\ stroke2 = <<>> /\ stroke3 = <<>>
    /\ cmpResult = NotCompared

CmpInit ==
    /\ stroke1 \in ComparedStrokes
    /\ stroke2 \in ComparedStrokes
    /\ stroke3 \in ComparedStrokes
    /\ cmpResult = NotCompared

\* The calls strokeIsLowerThen(a, b) for the pairs of the three strokes
Compare ==
    /\ ~cmpResult.done
    /\ cmpResult' = [done |-> TRUE,
                     ab |-> strokeIsLowerThen(stroke1, stroke2, 0),
                     ba |-> strokeIsLowerThen(stroke2, stroke1, 0),
                     bc |-> strokeIsLowerThen(stroke2, stroke3, 0),
                     ac |-> strokeIsLowerThen(stroke1, stroke3, 0)]
    /\ UNCHANGED <<stroke1, stroke2, stroke3>>
    /\ UNCHANGED NotCmp

\* C8: strokeIsLowerThen is a total-order comparator on strokes.  It returns 0
\* exactly when the two strokes are equal, otherwise -1 or 1 with
\* cmp(a,b) = -cmp(b,a), and it is transitive.
C8_TotalOrderComparator ==
    cmpResult.done =>
        /\ cmpResult.ab \in {-1, 0, 1}
        /\ (cmpResult.ab = 0) <=> (stroke1 = stroke2)
        /\ cmpResult.ab = -cmpResult.ba
        /\ (cmpResult.ab = -1 /\ cmpResult.bc = -1) => cmpResult.ac = -1

\* What the comparator does do: on two different strokes it is antisymmetric and
\* transitive, and it never returns 0.
CmpDistinctStrokes ==
    cmpResult.done =>
        /\ cmpResult.ab \in {-1, 1}
        /\ stroke1 # stroke2 => cmpResult.ab = -cmpResult.ba
        /\ (cmpResult.ab = -1 /\ cmpResult.bc = -1) => cmpResult.ac = -1
        /\ stroke1 = stroke2 => cmpResult.ab = 1


(***************************************************************************)
(* optimizeKeyboard called on a keyboard that carries a layout.            *)
(***************************************************************************)
RECURSIVE LayoutOf(_)
LayoutOf(assignments) ==
    IF assignments = <<>> THEN clearLayout
    ELSE addToLayout(LayoutOf(SubSeq(assignments, 1, Len(assignments) - 1)),
                     assignments[Len(assignments)][1], assignments[Len(assignments)][2])

\* Layouts the keyboard may carry when optimizeKeyboard is called
PriorLayouts ==
    {LayoutOf(<< >>),
     LayoutOf(<< <<<<2>>, "R">>, <<<<3>>, "t">>, <<<<4>>, "a">>,
                 <<<<24>>, "R">>, <<<<25>>, "t">> >>),
     LayoutOf(<< <<<<2, 3>>, "t">>, <<<<2>>, "R">>, <<<<4>>, "a">>,
                 <<<<24>>, "t">>, <<<<24>>, "R">> >>)}

PartsLists == {<<"onset">>, <<"coda">>, <<"onset", "coda">>, <<"coda", "onset">>}

SolvedStatuses == {"OPTIMAL", "FEASIBLE"}
Statuses == SolvedStatuses \cup {"INFEASIBLE", "UNKNOWN", "MODEL_INVALID"}

NoStatus == [part \in Parts |-> "none"]
NoKeys == [part \in Parts |-> <<>>]

\* optimizeKeyboard is not called
OptNotCalled ==
    /\ priorLayout = clearLayout
    /\ optPC = "idle"
    /\ PARTS = <<>>
    /\ optStatus = NoStatus
    /\ optKeys = NoKeys

OptIdle ==
    /\ phonemesAssignedToStroke = clearLayout
    /\ OptNotCalled

OptInit ==
    /\ phonemesAssignedToStroke \in PriorLayouts
    /\ priorLayout = phonemesAssignedToStroke
    /\ optPC = "idle"
    /\ PARTS = <<>>
    /\ optStatus = NoStatus
    /\ optKeys = NoKeys

\* optimizeKeyboard up to the solve loop: the models are built, the layout is cleared
OptimizeKeyboard ==
    \E syllabicParts \in PartsLists :
        /\ optPC = "idle"
        /\ PARTS' = syllabicParts
        /\ phonemesAssignedToStroke' = clearLayout
        /\ optPC' = "solving"
        /\ UNCHANGED <<priorLayout, optStatus, optKeys>>
        /\ UNCHANGED NotOpt

\* One round of the solve loop: the next part of PARTS is solved, its solution extracted
SolvePart ==
    /\ optPC = "solving"
    /\ LET part == PARTS[1]
       IN  \E status \in Statuses :
             /\ optStatus' = [optStatus EXCEPT ![part] = status]
             /\ IF status \in SolvedStatuses
                THEN \E sol \in SolutionsOfPart[part] :
                        /\ phonemesAssignedToStroke' =
                              ExtractStrokes(phonemesAssignedToStroke, sol.S,
                                             strokesInPart[part], part)
                        /\ optKeys' = [optKeys EXCEPT
                                          ![part] = keysAssignedToPhoneme(sol.K, part)]
                ELSE UNCHANGED <<phonemesAssignedToStroke, optKeys>>
    /\ PARTS' = Tail(PARTS)
    /\ optPC' = IF Tail(PARTS) = <<>> THEN "done" ELSE "solving"
    /\ UNCHANGED priorLayout
    /\ UNCHANGED NotOpt

\* The items of a layout that belong to a position
PositionLayout(layout, part) ==
    SelectSeq(layout, LAMBDA item : InSeq(item[1][1], keyIDinSyllabicPart[part]))

\* C4: when the solver returns neither OPTIMAL nor FEASIBLE for a position, the
\* layout of that position is afterwards the layout that was passed in.
C4_NoSolutionKeepsLayout ==
    \A part \in Parts :
        (optStatus[part] \in Statuses \ SolvedStatuses) =>
            PositionLayout(phonemesAssignedToStroke, part) = PositionLayout(priorLayout, part)

WordPool ==
    {<< <<"t", "R", "a">> >>,
     << <<"R", "t", "a">> >>,
     << <<"t", "a">> >>,
     << <<"t", "a">>, <<"a", "t">> >>}

\* Layouts giving one stroke to each phoneme of each position
TheoryLayouts ==
    {LayoutOf(<< <<oR, "R">>, <<ot, "t">>, <<<<4>>, "a">>, <<cR, "R">>, <<ct, "t">> >>) :
        oR \in Range(strokesInPart["onset"]), ot \in Range(strokesInPart["onset"]),
        cR \in Range(strokesInPart["coda"]), ct \in Range(strokesInPart["coda"])}

ThIdle ==
    /\ words = <<>>
    /\ thPC = "idle"
    /\ thWord = 0
    /\ thSyll = 0
    /\ theory = <<>>

ThInit ==
    /\ words \in UNION {[1..n -> WordPool] : n \in 1..MaxWords}
    /\ thPC = "analyse"
    /\ thWord = 1
    /\ thSyll = 1
    /\ theory = <<>>

\* analyseSyllabification: the next syllable of the next word goes to updateSyllable
AnalyseSyllable ==
    /\ thPC = "analyse"
    /\ updateSyllable(words[thWord][thSyll], "s1", 1)
    /\ IF thSyll < Len(words[thWord])
       THEN thSyll' = thSyll + 1 /\ UNCHANGED <<thWord, thPC>>
       ELSE /\ thSyll' = 1
            /\ IF thWord < Len(words)
               THEN thWord' = thWord + 1 /\ UNCHANGED thPC
               ELSE thWord' = 1 /\ thPC' = "build"
    /\ UNCHANGED <<words, theory>>
    /\ UNCHANGED <<cmpVars, optVars, ordVars, restVars>>

phonemeNamesByPart(s) ==
    [onset |-> s.phonemesByPart["onset"], nucleus |-> s.phonemesByPart["nucleus"],
     coda |-> s.phonemesByPart["coda"]]

syllableStrokes(word) ==
    [i \in 1..Len(word) |->
        getStrokeOfSyllableByPart(phonemesAssignedToStroke,
                                  phonemeNamesByPart(syllable_names[word[i]]))]

\* buildTheory: the next word is appended to the bucket of its chord sequence
BuildTheory ==
    /\ thPC = "build"
    /\ LET key == syllableStrokes(words[thWord])
       IN  theory' = IF key \in DOMAIN theory
                     THEN [theory EXCEPT ![key] = Append(@, thWord)]
                     ELSE (key :> <<thWord>>) @@ theory
    /\ IF thWord < Len(words)
       THEN thWord' = thWord + 1 /\ UNCHANGED thPC
       ELSE thWord' = 0 /\ thPC' = "done"
    /\ UNCHANGED <<words, thSyll>>
    /\ UNCHANGED <<syllVars, cmpVars, optVars, ordVars, restVars>>

IsAscending(keys) == \A i \in 1..(Len(keys) - 1) : keys[i] <= keys[i + 1]

StrokeOfSyllable(n) ==
    getStrokeOfSyllableByPart(phonemesAssignedToStroke, phonemeNamesByPart(syllable_names[n]))

\* C6: getStrokeOfSyllableByPart returns the keys of a syllable in ascending order,
\* so that the result depends only on which keys are pressed, not on the order
\* of the phonemes inside a position.
C6_StrokeAscending ==
    thPC \in {"build", "done"} =>
        \A n \in DOMAIN syllable_names :
            /\ IsAscending(StrokeOfSyllable(n))
            /\ \A m \in DOMAIN syllable_names :
                   Range(StrokeOfSyllable(n)) = Range(StrokeOfSyllable(m))
                       => StrokeOfSyllable(n) = StrokeOfSyllable(m)

BucketsOf(w) == {key \in DOMAIN theory : InSeq(w, theory[key])}
KeysPressed(word) == [i \in 1..Len(word) |-> Range(StrokeOfSyllable(word[i]))]

\* C7: after buildTheory every word is in exactly one bucket (once), and two words
\* are in the same bucket exactly when the same keys are pressed in each of
\* their syllables.
C7_TheoryPartition ==
    thPC = "done" =>
        /\ \A w \in 1..Len(words) :
               /\ Cardinality(BucketsOf(w)) = 1
               /\ \A key \in BucketsOf(w) : Count(w, theory[key]) = 1
        /\ \A v, w \in 1..Len(words) :
               (BucketsOf(v) = BucketsOf(w)) <=> (KeysPressed(words[v]) = KeysPressed(words[w]))

\* What buildTheory does do: every word is in exactly one bucket, and two words
\* share a bucket exactly when getStrokeOfSyllableByPart returns the same tuples.
TheoryBucketsByTuple ==
    thPC = "done" =>
        /\ \A w \in 1..Len(words) : Cardinality(BucketsOf(w)) = 1
        /\ \A v, w \in 1..Len(words) :
               (BucketsOf(v) = BucketsOf(w)) <=> (syllableStrokes(words[v]) = syllableStrokes(words[w]))

(***************************************************************************)
(* optimizeOrder called on the BiphonemeCollection of a position.  The     *)
(* windowScans rounds of the code (400) are bounded by MaxScans.           *)
(***************************************************************************)
\* The biphoneme collections optimizeOrder is called on: pairs and frequencies
OrderCollections ==
    {<<>>,
     (<<"t", "t">> :> 1),
     (<<"t", "R">> :> 2) @@ (<<"R", "t">> :> 1),
     (<<"R", "t">> :> 2) @@ (<<"t", "s">> :> 1) @@ (<<"s", "p">> :> 1)
        @@ (<<"p", "l">> :> 2) @@ (<<"t", "R">> :> 1)}

\* scorePermutation, tabulated for the permutations of each collection
\* A function as the table of its values
Table(f) == f @@ <<>>

scoreTable ==
    Table([col \in OrderCollections |->
             Table([p \in Shuffles(getPhonemesNames(col)) |-> scorePermutation(col, p)])])

\* The mutated permutations one round can start from
Mutations(bestPerm) ==
    LET n == Len(bestPerm)
    IN  {Mutate(bestPerm, randOrder, shuffleSize) :
            randOrder \in Shuffles(0..(n - 1)),
            shuffleSize \in 2..(IF n < maxShuffleSize - 1 THEN n ELSE maxShuffleSize - 1)}

\* Mutations and TestedPermutations, tabulated for the permutations of the collections
OrderPermutations == UNION {Shuffles(getPhonemesNames(col)) : col \in OrderCollections}
mutationsTable == Table([p \in OrderPermutations |-> Mutations(p)])
testedTable == Table([p \in OrderPermutations |-> TestedPermutations(p)])

OrdIdle ==
    /\ biphonemes = <<>>
    /\ ordPC = "idle"
    /\ bestPermutation = <<>>
    /\ bestScore = 0
    /\ initialScore = 0
    /\ scan = 0
    /\ self_bestPermutation = <<>>
    /\ self_bestPermutationScore = 0

\* A new collection: BiphonemeCollection.__init__ and the pairs counted since
OrdInit ==
    /\ biphonemes \in OrderCollections
    /\ ordPC = "start"
    /\ bestPermutation = <<>>
    /\ bestScore = 0
    /\ initialScore = 0
    /\ scan = 0
    /\ self_bestPermutation = <<>>
    /\ self_bestPermutationScore = 0

\* optimizeOrder up to the loop: the phonemes are shuffled and scored
OptimizeOrderStart ==
    /\ ordPC = "start"
    /\ \E phonemes \in Shuffles(getPhonemesNames(biphonemes)) :
          /\ bestPermutation' = phonemes
          /\ bestScore' = scoreTable[biphonemes][phonemes]
          /\ initialScore' = scoreTable[biphonemes][phonemes]
    /\ ordPC' = "scanning"
    /\ UNCHANGED <<biphonemes, scan, self_bestPermutation, self_bestPermutationScore>>
    /\ UNCHANGED NotOrd

\* One round of the loop: a rotation of shuffleSize phonemes, then the window scan
WindowScanRound ==
    /\ ordPC = "scanning"
    /\ scan < MaxScans
    /\ \E mutatedPermutation \in mutationsTable[bestPermutation] :
          LET best == WindowScan(scoreTable[biphonemes], testedTable[mutatedPermutation],
                                 bestPermutation, bestScore)
          IN  /\ bestPermutation' = best.perm
              /\ bestScore' = best.score
    /\ scan' = scan + 1
    /\ UNCHANGED <<biphonemes, ordPC, initialScore, self_bestPermutation,
                   self_bestPermutationScore>>
    /\ UNCHANGED NotOrd

\* A round whose shuffleSize exceeds the number of phonemes: randOrder[i] raises IndexError
WindowScanIndexError ==
    /\ ordPC = "scanning"
    /\ scan < MaxScans
    /\ \E shuffleSize \in 2..(maxShuffleSize - 1) : shuffleSize > Len(bestPermutation)
    /\ ordPC' = "IndexError"
    /\ UNCHANGED <<biphonemes, bestPermutation, bestScore, initialScore, scan,
                   self_bestPermutation, self_bestPermutationScore>>
    /\ UNCHANGED NotOrd

\* After the last round: registerBestPermutation
RegisterBestPermutation ==
    /\ ordPC = "scanning"
    /\ scan = MaxScans
    /\ self_bestPermutation' = bestPermutation
    /\ self_bestPermutationScore' = bestScore
    /\ ordPC' = "done"
    /\ UNCHANGED <<biphonemes, bestPermutation, bestScore, initialScore, scan>>
    /\ UNCHANGED NotOrd

IsPermutationOf(permutation, S) ==
    /\ Len(permutation) = Cardinality(S)
    /\ Range(permutation) = S

\* The running best is a permutation of the phonemes, carries its own score, and
\* is no worse than the first permutation; what is registered is the running best
BestIsSound ==
    /\ ordPC \in {"scanning", "done", "IndexError"} =>
          /\ IsPermutationOf(bestPermutation, getPhonemesNames(biphonemes))
          /\ bestScore = scorePermutation(biphonemes, bestPermutation)
          /\ bestScore >= initialScore
    /\ ordPC = "done" =>
          /\ self_bestPermutation = bestPermutation
          /\ self_bestPermutationScore = bestScore

C10_SinglePhoneme ==
    (Cardinality(getPhonemesNames(biphonemes)) = 1 /\ ordPC \in {"done", "IndexError"}) =>
        /\ ordPC = "done"
        /\ Len(self_bestPermutation) = 1
        /\ self_bestPermutationScore = 0

(***************************************************************************)
(* Word (src/src/word.py).  A str is a sequence of symbols; the symbols of *)
(* a feature are its tokens and the separators between them, so the        *)
(* feature "indicatif:pers_1" is <<"indicatif", ":", "pers", "_", "1">>.   *)
(* The accented names of the source are written without accent ("present"  *)
(* for the tense, "imperatif" for the mood).  None is the value str()      *)
(* turns into "None"; no argument of the model is the text "None" itself.  *)
(***************************************************************************)
None == <<"None">>

\* s[lo:] and s[lo:hi] of Python, for 0 <= lo
From(s, lo) == SubSeq(s, lo + 1, Len(s))

Slice(s, lo, hi) == SubSeq(s, lo + 1, IF hi < Len(s) THEN hi ELSE Len(s))

\* s[pos:pos+len(sub)] == sub
IsAt(s, sub, pos) ==
    /\ pos + Len(sub) <= Len(s)
    /\ \A k \in 1..Len(sub) : s[pos + k] = sub[k]

\* sub in s
Contains(s, sub) == \E pos \in 0..Len(s) : IsAt(s, sub, pos)

\* s.find(sub): the lowest position of sub in s, -1 when there is none
find(s, sub) ==
    IF Contains(s, sub)
    THEN CHOOSE pos \in 0..Len(s) :
             IsAt(s, sub, pos) /\ \A q \in 0..(pos - 1) : ~IsAt(s, sub, q)
    ELSE -1

\* s.split(sep), sep not empty
RECURSIVE split(_, _)
split(s, sep) ==
    IF Contains(s, sep)
    THEN <<Slice(s, 0, find(s, sep))>> \o split(From(s, find(s, sep) + Len(sep)), sep)
    ELSE <<s>>

\* sep.join(ss)
RECURSIVE join(_, _)
join(sep, ss) ==
    IF ss = <<>> THEN <<>>
    ELSE IF Len(ss) = 1 THEN ss[1]
    ELSE ss[1] \o sep \o join(sep, Tail(ss))

\* itertools.combinations(s, r), in the order itertools yields them
RECURSIVE combinations(_, _)
combinations(s, r) ==
    IF r = 0 THEN << <<>> >>
    ELSE IF Len(s) < r THEN <<>>
    ELSE LET withFirst == combinations(Tail(s), r - 1)
         IN [k \in 1..Len(withFirst) |-> <<s[1]>> \o withFirst[k]]
            \o combinations(Tail(s), r)

\* Word.fix_e_n_en: the pair <<rawSyllCV, rawOrthosyllCV>> it leaves
RECURSIVE fix_e_n_en(_, _)
fix_e_n_en(rawSyllCV, rawOrthosyllCV) ==
    IF /\ Contains(rawSyllCV, <<"@", "|", "n", "_">>)
       /\ Contains(rawOrthosyllCV, <<"e", "|", "n", "_">>)
    THEN LET pos == find(rawSyllCV, <<"@", "|", "n", "_">>)
             pos2 == find(rawOrthosyllCV, <<"e", "|", "n", "_">>)
         IN fix_e_n_en(
                Slice(rawSyllCV, 0, pos) \o <<"@", "|">> \o From(rawSyllCV, pos + 4),
                Slice(rawOrthosyllCV, 0, pos2) \o <<"e", "n", "|">>
                    \o From(rawOrthosyllCV, pos2 + 4))
    ELSE <<rawSyllCV, rawOrthosyllCV>>

\* Word.parseOrthoSyll and Word.parsePhonoSyll
parseOrthoSyll(rawOrthosyllCV) ==
    LET sylls == split(rawOrthosyllCV, <<"|">>)
    IN [k \in 1..Len(sylls) |-> split(sylls[k], <<"_">>)]

parsePhonoSyll(rawSyllCV) ==
    LET sylls == split(rawSyllCV, <<"|">>)
    IN [k \in 1..Len(sylls) |-> split(sylls[k], <<"_">>)]

\* Word.splitInfoVerb; "IndexError" where the code reads past the end of a list
splitInfoVerb(infoVerb) ==
    LET iv == split(infoVerb, <<":">>)
        mode == (IF iv[1] = <<"ind">> THEN << <<"indicatif">> >> ELSE <<>>)
             \o (IF iv[1] = <<"imp">> THEN << <<"imperatif">> >> ELSE <<>>)
             \o (IF iv[1] = <<"sub">> THEN << <<"subjonctif">> >> ELSE <<>>)
             \o (IF iv[1] = <<"par">> THEN << <<"participe">> >> ELSE <<>>)
             \o (IF iv[1] = <<"cnd">> THEN << <<"conditionnel">> >> ELSE <<>>)
        tense == (IF iv[2] = <<"pre">> THEN << <<"present">> >> ELSE <<>>)
              \o (IF iv[2] = <<"pas">> THEN << <<"passe">> >> ELSE <<>>)
        ret == mode \o tense
    IN IF iv[1] = <<"inf">> THEN << <<"infinitif">> >>
       ELSE IF Len(iv) < 2 THEN "IndexError"
       ELSE IF ret = <<>> THEN "IndexError"
       ELSE IF ret[1] = <<"participe">> THEN ret
       ELSE IF Len(iv) < 3 \/ Len(iv[3]) < 2 THEN "IndexError"
       ELSE ret
            \o (IF iv[2] = <<"imp">> THEN << <<"imparfait">> >> ELSE <<>>)
            \o (IF iv[2] = <<"fut">> THEN << <<"future">> >> ELSE <<>>)
            \o << <<"pers", "_", iv[3][1]>>, <<"nbr", "_", iv[3][2]>> >>

\* the _infoVerb of Word.__post_init__
ParsedInfoVerb(infoVerb) ==
    IF infoVerb = None THEN None
    ELSE LET codes == SelectSeq(split(infoVerb, <<";">>), LAMBDA iv : iv # <<>>)
         IN [k \in 1..Len(codes) |-> splitInfoVerb(codes[k])]

\* the str hashed by Word.__post_init__; hash() of a str is taken to be injective
HashedStr(a) == a.ortho \o a.phonology \o a.lemme \o a.gramCat \o a.gender \o a.number

\* Word(...): the fields of the object after __post_init__
WordNew(a) ==
    LET fixed == fix_e_n_en(a.rawSyllCV, a.rawOrthosyllCV)
    IN [ortho |-> a.ortho, phonology |-> a.phonology, lemme |-> a.lemme,
        gramCat |-> a.gramCat, gender |-> a.gender, number |-> a.number,
        infoVerb |-> a.infoVerb,
        rawSyllCV |-> fixed[1], rawOrthosyllCV |-> fixed[2],
        frequencyFilm |-> a.frequencyFilm,
        orthosyllCV |-> parseOrthoSyll(fixed[2]),
        syllCV |-> parsePhonoSyll(fixed[1]),
        frequency |-> a.frequencyFilm,
        _hash |-> HashedStr(a),
        _infoVerb |-> ParsedInfoVerb(a.infoVerb),
        lemmeGramCat |-> a.lemme \o <<"_">> \o a.gramCat]

\* Word.__eq__
WordEq(w1, w2) == w1._hash = w2._hash

\* the features one conjugation of _infoVerb adds in Word.getFeatures
RECURSIVE CombosBelow(_, _)
CombosBelow(singleInfoVerb, comboSize) ==
    IF comboSize <= 1 THEN <<>>
    ELSE CombosBelow(singleInfoVerb, comboSize - 1)
             \o combinations(singleInfoVerb, comboSize - 1)

RECURSIVE CombosUpTo(_, _)
CombosUpTo(singleInfoVerb, comboSize) ==
    IF comboSize = 0 THEN <<>>
    ELSE CombosUpTo(singleInfoVerb, comboSize - 1) \o combinations(singleInfoVerb, comboSize)

ConjugationFeatures(singleInfoVerb) ==
    LET combos == CombosUpTo(singleInfoVerb, Len(singleInfoVerb))
    IN [k \in 1..Len(combos) |-> join(<<":">>, combos[k])]

\* Word.getFeatures
getFeatures(w) ==
    LET base == <<w.gramCat>>
             \o (IF w.gender # None THEN <<w.gender>> ELSE <<>>)
             \o (IF w.number # None THEN <<w.number>> ELSE <<>>)
        combo == IF w.gender # None /\ w.number # None
                 THEN <<w.gender \o <<"_">> \o w.number>>
                      \o (IF w.gender \o <<"_">> \o w.number # <<"m", "_", "s">>
                          THEN << <<"not", "_", "m", "_", "s">> >> ELSE <<>>)
                 ELSE <<>>
        verb == IF w.gramCat = <<"VER">> /\ w.gender # None /\ w.number # None
                THEN <<w.gramCat \o <<"_">> \o w.gender \o <<"_">> \o w.number>>
                ELSE <<>>
        conj == IF w._infoVerb = None THEN <<>>
                ELSE Flatten([k \in 1..Len(w._infoVerb) |->
                                  ConjugationFeatures(w._infoVerb[k])])
    IN base \o combo \o verb \o conj

\* Word.replaceSyllables, syll_orig not empty
RECURSIVE replaceLoop(_, _, _, _)
replaceLoop(phono, i, syll_orig, syll_final) ==
    IF find(From(phono, i), syll_orig) = -1 THEN phono
    ELSE LET pos == find(From(phono, i), syll_orig) + i
         IN replaceLoop(Slice(phono, 0, pos) \o syll_final
                            \o From(phono, Len(syll_orig) + pos),
                        pos + Len(syll_final), syll_orig, syll_final)

replaceFirstOnly(phonology, syll_orig, syll_final) ==
    IF find(phonology, syll_orig) = -1 THEN phonology
    ELSE Slice(phonology, 0, find(phonology, syll_orig)) \o syll_final
             \o From(phonology, Len(syll_orig) + find(phonology, syll_orig))

replaceSyllables(phonology, syll_orig, syll_final) ==
    IF syll_orig = syll_final THEN phonology
    ELSE replaceLoop(phonology, 0, syll_orig, syll_final)

(***************************************************************************)
(* The homophone disambiguator: extractDiscriminatingFeatures              *)
(* (src/src/featureextractor.py) and the assignment loop of                *)
(* greedyOptimizeDiscriminator (src/src/greedyoptimizer.py).  The theory   *)
(* of the model has one entry, whose words are homophones.                 *)
(***************************************************************************)
MaxGroup == 3       \* number of words of the theory entry

WordArgs(ortho, lemme, gramCat, gender, number, infoVerb) ==
    [ortho |-> ortho, phonology |-> <<"m", "i">>, lemme |-> lemme, gramCat |-> gramCat,
     gender |-> gender, number |-> number, infoVerb |-> infoVerb,
     rawSyllCV |-> <<"m", "_", "i">>, rawOrthosyllCV |-> <<"m", "_", "i">>,
     frequencyFilm |-> 1]

\* the words a theory entry is drawn from: two participles of mettre spelled
\* alike, a third one with the features of the first, the infinitive, and a noun
GreedyWords ==
    {WordNew(WordArgs(<<"mis">>, <<"mettre">>, <<"VER">>, <<"m">>, <<"s">>,
                      <<"par", ":", "pas", ";">>)),
     WordNew(WordArgs(<<"mis">>, <<"mettre">>, <<"VER">>, <<"m">>, <<"p">>,
                      <<"par", ":", "pas", ";">>)),
     WordNew(WordArgs(<<"mit">>, <<"mettre">>, <<"VER">>, <<"m">>, <<"s">>,
                      <<"par", ":", "pas", ";">>)),
     WordNew(WordArgs(<<"mettre">>, <<"mettre">>, <<"VER">>, None, None,
                      <<"inf", ";">>)),
     WordNew(WordArgs(<<"mie">>, <<"mie">>, <<"NOM">>, <<"f">>, <<"s">>, None))}

\* the lists of distinct words of length 1..n
RECURSIVE WordLists(_, _)
WordLists(W, n) ==
    IF n = 0 THEN {<<>>}
    ELSE LET shorter == WordLists(W, n - 1)
         IN shorter \cup {Append(l, w) : l \in {s \in shorter : Len(s) = n - 1},
                                         w \in W}

TheoryEntries ==
    {l \in WordLists(GreedyWords, MaxGroup) :
        l # <<>> /\ \A i, j \in 1..Len(l) : i # j => l[i] # l[j]}

\* word in words, for a set of Word objects
WordIn(w, ws) == \E d \in ws : WordEq(d, w)

\* wordByLemme[lemme] of both functions
lemmeWordsOf(selectedWords, lemme) ==
    SelectSeq(selectedWords, LAMBDA w : w.lemmeGramCat = lemme)

LemmesOf(selectedWords) == {selectedWords[k].lemmeGramCat : k \in 1..Len(selectedWords)}

allFeaturesOf(selectedWords) ==
    UNION {Range(getFeatures(selectedWords[k])) : k \in 1..Len(selectedWords)}

\* the keys of lemmeOrthoFeatures[feature]: the orthographs with a word that has it
OrthosUsing(lemmeWords, feature) ==
    {lemmeWords[k].ortho :
        k \in {i \in 1..Len(lemmeWords) : feature \in Range(getFeatures(lemmeWords[i]))}}

\* wordsUsing[0]: the first word of the group spelled ortho
FirstWithOrtho(lemmeWords, ortho) ==
    lemmeWords[CHOOSE k \in 1..Len(lemmeWords) :
                   /\ lemmeWords[k].ortho = ortho
                   /\ \A i \in 1..(k - 1) : lemmeWords[i].ortho # ortho]

\* what one group adds to wordIsDiscrminatedByFeature[feature]
GroupDiscriminated(lemmeWords, feature) ==
    IF Cardinality(OrthosUsing(lemmeWords, feature)) = 1
    THEN {FirstWithOrtho(lemmeWords, ortho) : ortho \in OrthosUsing(lemmeWords, feature)}
    ELSE {}

\* the wordIsDiscrminatedByFeature that extractDiscriminatingFeatures returns
extractDiscriminatingFeatures(selectedWords) ==
    [feature \in allFeaturesOf(selectedWords) |->
        UNION {GroupDiscriminated(lemmeWordsOf(selectedWords, lemme), feature) :
                   lemme \in LemmesOf(selectedWords)}]

\* list(allFeatures): Python iterates a set of str in an order that the hash
\* seed of the run decides.  The model takes one enumeration of the set and
\* its rotations, so that every feature comes first in one of them.
RECURSIVE Enumeration(_)
Enumeration(S) ==
    IF S = {} THEN <<>>
    ELSE LET x == CHOOSE y \in S : TRUE IN <<x>> \o Enumeration(S \ {x})

SetOrders(S) ==
    LET e == Enumeration(S)
    IN {Drop(e, k) \o Take(e, k) : k \in 0..(Len(e) - 1)} \cup {e}

\* sorted(items, key=lambda item: len(item[1]), reverse=True) on the features in
\* the order given: the sort is stable, so equally popular features keep it
RECURSIVE SortedByPopularity(_, _, _)
SortedByPopularity(disc, order, n) ==
    SelectSeq(order, LAMBDA f : Cardinality(disc[f]) = n)
        \o (IF n = 0 THEN <<>> ELSE SortedByPopularity(disc, order, n - 1))

\* the orderedFeaturesSelected that extractDiscriminatingFeatures may return:
\* each turn of its greedy loop takes the first feature left of that sort
OrderedFeatures(disc) ==
    {SortedByPopularity(disc, order, Cardinality(UNION {disc[f] : f \in DOMAIN disc})) :
        order \in SetOrders(DOMAIN disc)}

\* the words left to assign once the word at index wi (from 1) has its feature
AfterAssignmentDropLemme(toAssign, wi) ==
    SelectSeq(toAssign, LAMBDA w : w.lemme # toAssign[wi].lemme)

AfterAssignment(toAssign, wi) ==
    LET popped == Take(toAssign, wi - 1) \o Drop(toAssign, wi)
    IN SelectSeq(popped, LAMBDA w : w.ortho # toAssign[wi].ortho)

\* the nofeature branch: every word left is popped and given "nofeature"
AssignNoFeature(selected, toAssign) ==
    selected \o [k \in 1..Len(toAssign) |-> << <<"nofeature">>, toAssign[k]>>]

\* for lemme, lemmeWords in wordByLemme.items(): one group is taken
GreedyGroup ==
    /\ grPC = "group"
    /\ \E lemme \in LemmesOf(homophones) :
        /\ grLemme' = lemme
        /\ IF Len(lemmeWordsOf(homophones, lemme)) > 1
           THEN /\ wordsToAssignToFeature' = lemmeWordsOf(homophones, lemme)
                /\ possibleFeatures' = orderedFeaturesSelected
                /\ grPC' = "loop"
           ELSE /\ grPC' = "done"
                /\ UNCHANGED <<wordsToAssignToFeature, possibleFeatures>>
    /\ selectedFeatureWord' = <<>>
    /\ UNCHANGED <<homophones, wordIsDiscrminatedByFeature, orderedFeaturesSelected>>
    /\ UNCHANGED NotGr

\* one turn of the while loop with no feature left
GreedyNoFeature ==
    /\ grPC = "loop"
    /\ Len(wordsToAssignToFeature) > 0
    /\ Len(possibleFeatures) = 0
    /\ selectedFeatureWord' = AssignNoFeature(selectedFeatureWord, wordsToAssignToFeature)
    /\ wordsToAssignToFeature' = <<>>
    /\ UNCHANGED <<homophones, grLemme, grPC, wordIsDiscrminatedByFeature,
                   orderedFeaturesSelected, possibleFeatures>>
    /\ UNCHANGED NotGr

\* one turn of the while loop that pops a feature
GreedyTryFeature ==
    /\ grPC = "loop"
    /\ Len(wordsToAssignToFeature) > 0
    /\ Len(possibleFeatures) > 0
    /\ LET feature == Head(possibleFeatures)
           hits == {wi \in 1..Len(wordsToAssignToFeature) :
                       WordIn(wordsToAssignToFeature[wi],
                              wordIsDiscrminatedByFeature[feature])}
       IN /\ possibleFeatures' = Tail(possibleFeatures)
          /\ IF hits # {}
             THEN LET wi == CHOOSE i \in hits : \A j \in hits : i <= j
                  IN /\ selectedFeatureWord' =
                           Append(selectedFeatureWord,
                                  <<feature, wordsToAssignToFeature[wi]>>)
                     /\ wordsToAssignToFeature' =
                           AfterAssignment(wordsToAssignToFeature, wi)
             ELSE UNCHANGED <<selectedFeatureWord, wordsToAssignToFeature>>
    /\ UNCHANGED <<homophones, grLemme, grPC, wordIsDiscrminatedByFeature,
                   orderedFeaturesSelected>>
    /\ UNCHANGED NotGr

\* the while loop ends
GreedyGroupDone ==
    /\ grPC = "loop"
    /\ Len(wordsToAssignToFeature) = 0
    /\ grPC' = "done"
    /\ UNCHANGED <<homophones, grLemme, wordIsDiscrminatedByFeature,
                   orderedFeaturesSelected, possibleFeatures, wordsToAssignToFeature,
                   selectedFeatureWord>>
    /\ UNCHANGED NotGr

GrInit ==
    /\ homophones \in TheoryEntries
    /\ wordIsDiscrminatedByFeature = extractDiscriminatingFeatures(homophones)
    /\ orderedFeaturesSelected \in OrderedFeatures(wordIsDiscrminatedByFeature)
    /\ grLemme = <<>> /\ grPC = "group"
    /\ possibleFeatures = <<>> /\ wordsToAssignToFeature = <<>> /\ selectedFeatureWord = <<>>

NextGreedy == GreedyGroup \/ GreedyNoFeature \/ GreedyTryFeature \/ GreedyGroupDone

\* the orthographs of the group the loop works on
GroupOrthos == {w.ortho : w \in Range(lemmeWordsOf(homophones, grLemme))}

\* the orthographs of the words that have been given a feature or "nofeature"
AssignedOrthos == {fw[2].ortho : fw \in Range(selectedFeatureWord)}

\* every pair of selectedFeatureWord holds "nofeature" or a feature that
\* discriminates its word
AssignedFeaturesAreReal ==
    \A fw \in Range(selectedFeatureWord) :
        \/ fw[1] = <<"nofeature">>
        \/ /\ fw[1] \in DOMAIN wordIsDiscrminatedByFeature
           /\ WordIn(fw[2], wordIsDiscrminatedByFeature[fw[1]])

GroupCovered ==
    (grPC = "done" /\ Len(lemmeWordsOf(homophones, grLemme)) > 1)
        => (GroupOrthos = AssignedOrthos /\ AssignedFeaturesAreReal)

\* C11: for a group of more than one word the assignment loop terminates, and
\* when it has, every orthograph of the group has a word that was given a
\* feature discriminating it or the sentinel "nofeature".
C11_AssignmentTerminatesCovered == <>(grPC = "done") /\ []GroupCovered

\* a group of three words is done: one word got a real feature, the word
\* spelled like it was dropped with it, and the third got "nofeature"
C11_Witness ==
    /\ grPC = "done"
    /\ Len(lemmeWordsOf(homophones, grLemme)) = 3
    /\ Len(selectedFeatureWord) = 2
    /\ \E fw \in Range(selectedFeatureWord) : fw[1] = <<"nofeature">>
    /\ \E fw \in Range(selectedFeatureWord) : fw[1] # <<"nofeature">>

\* a feature that joins several tokens of a conjugation with ":"
IsCombination(feature) == InSeq(":", feature)

\* the single features that discriminate the word in its group
SingleDiscriminators(w) ==
    {f \in DOMAIN wordIsDiscrminatedByFeature :
        ~IsCombination(f) /\ WordIn(w, wordIsDiscrminatedByFeature[f])}

\* C12: in a group where a single (not combined) feature singles out a word,
\* the feature the loop selects for that word is a single feature, never a
\* ":"-joined combination.
C12_SingleBeforeCombination ==
    \A fw \in Range(selectedFeatureWord) :
        SingleDiscriminators(fw[2]) # {} => ~IsCombination(fw[1])

(***************************************************************************)
(* Words under construction and the methods called on them.                *)
(***************************************************************************)
MaxSylls == 3       \* number of syllables of rawSyllCV and of rawOrthosyllCV
MaxPhonoLen == 3    \* length of the phonology handed to replaceSyllables

\* "a_b|c": the raw form of a list of syllables, each a list of symbols
RawOf(sylls) ==
    join(<<"|">>, [k \in 1..Len(sylls) |->
                       join(<<"_">>, [i \in 1..Len(sylls[k]) |-> <<sylls[k][i]>>])])

PhonoSyllables == {<<"@">>, <<"n", "@">>, <<"n", "i">>}
OrthoSyllables == {<<"e">>, <<"n", "e">>, <<"n", "i">>}

DefaultArgs ==
    [ortho |-> <<"n", "i">>, phonology |-> <<"n", "i">>, lemme |-> <<"n", "i">>,
     gramCat |-> <<"VER">>, gender |-> None, number |-> None, infoVerb |-> None,
     rawSyllCV |-> <<"n", "_", "i">>, rawOrthosyllCV |-> <<"n", "_", "i">>,
     frequencyFilm |-> 1]

\* words that differ in their syllable breakdowns
NasalArgs ==
    {[DefaultArgs EXCEPT !.rawSyllCV = RawOf(p), !.rawOrthosyllCV = RawOf(o)] :
        p \in StringsUpTo(PhonoSyllables, MaxSylls),
        o \in StringsUpTo(OrthoSyllables, MaxSylls)}

\* words that differ in their phonology
PhonoArgs ==
    {[DefaultArgs EXCEPT !.phonology = p] : p \in StringsUpTo({"n", "i"}, MaxPhonoLen)}

\* words that differ in the fields hashed and in two fields that are not
IdentityArgs ==
    {[DefaultArgs EXCEPT !.ortho = o, !.phonology = p, !.gender = g, !.infoVerb = v,
                         !.frequencyFilm = f] :
        o \in {<<"a">>, <<"a", "t">>}, p \in {<<"a">>, <<"t", "a">>},
        g \in {None, <<"m">>}, v \in {None, <<"inf", ";">>}, f \in {1, 2}}

\* the conjugation codes of the lexicon: mood, tense, person and number
Persons == {<<"1", "s">>, <<"3", "p">>}

InfoVerbCodes ==
    {<<"inf">>, <<"par", ":", "pre">>, <<"par", ":", "pas">>}
    \cup {<<m, ":", t, ":">> \o p :
             m \in {"ind", "sub", "cnd", "imp"}, t \in {"pre", "pas", "imp", "fut"},
             p \in Persons}

\* the infover column: codes, each followed by ";"
InfoVerbs ==
    {c \o <<";">> : c \in InfoVerbCodes}
    \cup {c \o <<";">> \o d \o <<";">> :
             c \in {<<"ind", ":", "pre", ":", "1", "s">>, <<"par", ":", "pas">>},
             d \in InfoVerbCodes}

\* verbs that differ in gender, number and conjugation
VerbArgs ==
    {[DefaultArgs EXCEPT !.gender = g, !.number = n, !.infoVerb = v] :
        g \in {None, <<"f">>}, n \in {None, <<"s">>}, v \in InfoVerbs}

\* the arguments of replaceSyllables: syll_orig is not empty
ReplaceArgs == StringsUpTo({"n", "i"}, 2) \X (StringsUpTo({"n", "i"}, 2) \cup {<<>>})

WordInit ==
    /\ wordArgs \in
         {[self |-> a, other |-> a, syll_orig |-> <<"n">>, syll_final |-> <<"i">>] :
             a \in NasalArgs \cup VerbArgs}
         \cup {[self |-> a, other |-> a, syll_orig |-> r[1], syll_final |-> r[2]] :
                  a \in PhonoArgs, r \in ReplaceArgs}
         \cup {[self |-> a, other |-> b, syll_orig |-> <<"n">>, syll_final |-> <<"i">>] :
                  a \in IdentityArgs, b \in IdentityArgs}
    /\ selfWord = "none" /\ otherWord = "none"
    /\ wordCall = [op |-> "none"]

\* Word(...) twice
WordConstruct ==
    /\ wordCall.op = "none"
    /\ selfWord' = WordNew(wordArgs.self)
    /\ otherWord' = WordNew(wordArgs.other)
    /\ wordCall' = [op |-> "Word"]
    /\ UNCHANGED wordArgs
    /\ UNCHANGED NotWord

\* selfWord == otherWord
WordEquals ==
    /\ wordCall.op # "none"
    /\ wordCall' = [op |-> "__eq__", result |-> WordEq(selfWord, otherWord)]
    /\ UNCHANGED <<selfWord, otherWord, wordArgs>>
    /\ UNCHANGED NotWord

\* selfWord.getFeatures()
WordGetFeatures ==
    /\ wordCall.op # "none"
    /\ wordCall' = [op |-> "getFeatures", result |-> getFeatures(selfWord)]
    /\ UNCHANGED <<selfWord, otherWord, wordArgs>>
    /\ UNCHANGED NotWord

\* selfWord.replaceSyllables(syll_orig, syll_final)
WordReplaceSyllables ==
    /\ wordCall.op # "none"
    /\ wordCall' = [op |-> "replaceSyllables",
                    result |-> replaceSyllables(selfWord.phonology, wordArgs.syll_orig,
                                                wordArgs.syll_final)]
    /\ UNCHANGED <<selfWord, otherWord, wordArgs>>
    /\ UNCHANGED NotWord

NextWord == WordConstruct \/ WordEquals \/ WordGetFeatures \/ WordReplaceSyllables

Constructed == wordCall.op # "none"

\* the number of elements of each syllable
Shape(syllCV) == [k \in 1..Len(syllCV) |-> Len(syllCV[k])]

\* C13: after construction rawSyllCV holds no "@|n_" and rawOrthosyllCV no
\* "e|n_", and when the two breakdowns given had the same number of elements in
\* each syllable, syllCV and orthosyllCV still have.
C13_NasalFix ==
    Constructed =>
        /\ ~Contains(selfWord.rawSyllCV, <<"@", "|", "n", "_">>)
        /\ ~Contains(selfWord.rawOrthosyllCV, <<"e", "|", "n", "_">>)
        /\ Shape(parsePhonoSyll(wordArgs.self.rawSyllCV))
               = Shape(parseOrthoSyll(wordArgs.self.rawOrthosyllCV))
           => Shape(selfWord.syllCV) = Shape(selfWord.orthosyllCV)

\* s with the occurrences of a, taken from left to right and not overlapping,
\* replaced by b; what b brings in is not looked at again
RECURSIVE LeftToRightReplaced(_, _, _)
LeftToRightReplaced(s, a, b) ==
    IF s = <<>> THEN <<>>
    ELSE IF IsAt(s, a, 0) THEN b \o LeftToRightReplaced(From(s, Len(a)), a, b)
    ELSE <<s[1]>> \o LeftToRightReplaced(Tail(s), a, b)

\* C14: replaceSyllables(a, b) returns the phonology with every occurrence of a,
\* from left to right and not overlapping, replaced by b; it is the phonology
\* itself when a = b and when a does not occur in it.
C14_ReplaceSyllables ==
    wordCall.op = "replaceSyllables" =>
        /\ wordCall.result
               = LeftToRightReplaced(selfWord.phonology, wordArgs.syll_orig,
                                     wordArgs.syll_final)
        /\ wordArgs.syll_orig = wordArgs.syll_final => wordCall.result = selfWord.phonology
        /\ ~Contains(selfWord.phonology, wordArgs.syll_orig)
               => wordCall.result = selfWord.phonology

\* two occurrences were replaced by a text that holds the replaced one
C14_Witness ==
    /\ wordCall.op = "replaceSyllables"
    /\ selfWord.phonology = <<"n", "i", "n">>
    /\ wordArgs.syll_orig = <<"n">> /\ wordArgs.syll_final = <<"n", "n">>
    /\ wordCall.result = <<"n", "n", "i", "n", "n">>

\* the fields Word.__post_init__ hashes
IdentityTuple(w) == <<w.ortho, w.phonology, w.lemme, w.gramCat, w.gender, w.number>>

\* C15: two Words are equal (and have the same hash) exactly when their tuples
\* (ortho, phonology, lemme, gramCat, gender, number) are equal.
C15_EqualIffSameTuple ==
    wordCall.op = "__eq__" =>
        (wordCall.result <=> IdentityTuple(selfWord) = IdentityTuple(otherWord))

\* 2^n
RECURSIVE Pow2(_)
Pow2(n) == IF n = 0 THEN 1 ELSE 2 * Pow2(n - 1)

\* the tokens of t at the indices I, in the order of t
SubTuple(t, I) == SelectSeq([k \in 1..Len(t) |-> IF k \in I THEN t[k] ELSE <<>>],
                            LAMBDA x : x # <<>>)

\* the non-empty order-preserving sub-tuples of t, joined by ":"
SubTupleFeatures(t) ==
    {join(<<":">>, SubTuple(t, I)) : I \in (SUBSET (1..Len(t))) \ {{}}}

\* C19: for each parsed conjugation tuple of n tokens (1 for infinitif, 2 for
\* participe, 4 for the other moods) getFeatures holds exactly the 2^n - 1
\* non-empty order-preserving sub-tuples of it, joined by ":".
C19_FeaturePowerset ==
    (wordCall.op = "getFeatures" /\ selfWord._infoVerb # None) =>
        \A k \in 1..Len(selfWord._infoVerb) :
            LET t == selfWord._infoVerb[k]
            IN /\ Len(t) = (IF t[1] = <<"infinitif">> THEN 1
                            ELSE IF t[1] = <<"participe">> THEN 2 ELSE 4)
               /\ SubTupleFeatures(t) \subseteq Range(wordCall.result)
               /\ Cardinality(SubTupleFeatures(t)) = Pow2(Len(t)) - 1
               /\ Range(ConjugationFeatures(t)) = SubTupleFeatures(t)
               /\ Len(ConjugationFeatures(t)) = Pow2(Len(t)) - 1

\* the features of a verb with two conjugations, one of four tokens
C19_Witness ==
    /\ wordCall.op = "getFeatures"
    /\ selfWord._infoVerb # None
    /\ Len(selfWord._infoVerb) = 2
    /\ Len(selfWord._infoVerb[1]) = 4
    /\ <<"indicatif", ":", "present", ":", "pers", "_", "1", ":", "nbr", "_", "s">>
           \in Range(wordCall.result)

(***************************************************************************)
(* SyllableCollection.syllabicAmbiguityScore (grammar.py 761-801), on the  *)
(* syllables of the collection.                                            *)
(***************************************************************************)
\* Syllable.replacePhonemeInSyllabicPart; phoneme2 is a str, empty or not
replacePhonemeInSyllabicPart(s, phoneme1, phoneme2, syllabicPart) ==
    LET replaced(part) ==
            IF part = syllabicPart
            THEN Flatten([k \in 1..Len(s.phonemesByPart[part]) |->
                             IF s.phonemesByPart[part][k] = phoneme1 THEN phoneme2
                             ELSE <<s.phonemesByPart[part][k]>>])
            ELSE s.phonemesByPart[part]
    IN replaced("onset") \o replaced("nucleus") \o replaced("coda")

\* SyllableCollection.getFrequency
getFrequency(name) ==
    IF name \in DOMAIN syllable_names THEN syllable_names[name].frequency ELSE 0

Max3(a, b, c) ==
    IF a >= b /\ a >= c THEN a ELSE IF b >= c THEN b ELSE c

Min2(a, b) == IF a <= b THEN a ELSE b

\* what one syllable that holds phoneme1 in the part adds to the score
SyllableScore(syll1, phoneme1, phoneme2, syllabicPart) ==
    IF InSeq(phoneme2, syll1.phonemesByPart[syllabicPart])
    THEN LET short_syllable1 ==
                 replacePhonemeInSyllabicPart(syll1, phoneme1, <<>>, syllabicPart)
             short_syllable2 ==
                 replacePhonemeInSyllabicPart(syll1, phoneme2, <<>>, syllabicPart)
         IN getFrequency(syll1.name) + getFrequency(short_syllable1)
                + getFrequency(short_syllable2)
                - Max3(getFrequency(syll1.name), getFrequency(short_syllable1),
                       getFrequency(short_syllable2))
    ELSE Min2(getFrequency(syll1.name),
              getFrequency(replacePhonemeInSyllabicPart(syll1, phoneme1, <<phoneme2>>,
                                                        syllabicPart)))

syllabicAmbiguityScore(phoneme1, phoneme2, syllabicPart) ==
    LET phoneme1_syllables ==
            {n \in DOMAIN syllable_names :
                InSeq(phoneme1, syllable_names[n].phonemesByPart[syllabicPart])}
    IN SumOver(phoneme1_syllables,
               [n \in phoneme1_syllables |->
                   SyllableScore(syllable_names[n], phoneme1, phoneme2, syllabicPart)])

\* C16: the ambiguity score of a phoneme with itself is 0, in every part and
\* for every collection of syllables (stated here for syllabicAmbiguityScore).
C16_SamePhonemeScoresZero ==
    \A p \in Alphabet, part \in Parts : syllabicAmbiguityScore(p, p, part) = 0

(***************************************************************************)
(* Dictionary.readCorpus (dictionary.py 84-120): the loop over the rows of *)
(* the lexicon.  A row is what csv.DictReader yields: a value for each     *)
(* column, None for a column the line does not have.                       *)
(***************************************************************************)
MaxRows == 3        \* number of rows of the lexicon

\* the names of the enum GramCat (word.py 9-18)
GramCatNames ==
    {"ADJ", "ADJ:dem", "ADJ:ind", "ADJ:int", "ADJ:num", "ADJ:pos", "ADV", "ART:def",
     "ART:ind", "AUX", "CON", "LIA", "NOM", "ONO", "PRE", "PRO:dem", "PRO:ind", "PRO:int",
     "PRO:per", "PRO:pos", "PRO:rel", "VER"}

\* float(text) succeeds: digits with at most one point (the lexicon writes
\* frequencies so)
Digits == {"0", "1", "2", "3", "4", "5", "6", "7", "8", "9"}

IsFloatText(text) ==
    /\ text # None
    /\ \E k \in 1..Len(text) : text[k] \in Digits
    /\ \A k \in 1..Len(text) : text[k] \in Digits \cup {"."}
    /\ Cardinality({k \in 1..Len(text) : text[k] = "."}) <= 1

GoodRow ==
    [ortho |-> <<"m", "i", "e">>, phon |-> <<"m", "i">>, lemme |-> <<"m", "i", "e">>,
     cgram |-> <<"NOM">>, cgramortho |-> <<"NOM">>, genre |-> <<"f">>, nombre |-> <<"s">>,
     infover |-> <<>>, syll_cv |-> <<"m", "_", "i">>, orthosyll_cv |-> <<"m", "_", "i", "e">>,
     freqlivres |-> <<"1", ".", "5">>, freqfilms2 |-> <<"2">>]

\* the rows of the model: a noun, a verb without and with conjugation, a
\* comment, and the three malformed rows (unknown category, unparsable
\* frequency, line cut before the frequency columns)
Rows ==
    {GoodRow,
     [GoodRow EXCEPT !.ortho = <<"m", "i", "t">>, !.cgram = <<"VER">>,
                     !.cgramortho = <<"VER">>, !.genre = <<>>, !.nombre = <<>>],
     [GoodRow EXCEPT !.ortho = <<"m", "i", "s">>, !.cgram = <<"VER">>,
                     !.cgramortho = <<"VER">>, !.infover = <<"inf", ";">>],
     [GoodRow EXCEPT !.ortho = <<"#", "m">>],
     [GoodRow EXCEPT !.cgram = <<"XXX">>],
     [GoodRow EXCEPT !.freqfilms2 = <<"a", "b", "c">>],
     [GoodRow EXCEPT !.freqlivres = None, !.freqfilms2 = None]}

\* the rows the spec calls malformed
Malformed(row) ==
    \/ \E column \in DOMAIN row : row[column] = None
    \/ ~IsFloatText(row.freqlivres) \/ ~IsFloatText(row.freqfilms2)
    \/ Len(row.cgram) # 1 \/ row.cgram[1] \notin GramCatNames

\* the row is read: not a comment
IsRead(row) == row.ortho # None /\ row.ortho[1] # "#"

\* the exception Word(...) raises for the row, "none" when it builds the Word.
\* readCorpus hands infoVerb over as a list of lists, and __post_init__ calls
\* split on it when it is not None.
RowException(row) ==
    IF Len(row.cgram) # 1 \/ row.cgram[1] \notin GramCatNames THEN "KeyError"
    ELSE IF row.cgramortho = None \/ row.infover = None THEN "AttributeError"
    ELSE IF \E gc \in Range(split(row.cgramortho, <<",">>)) :
                Len(gc) # 1 \/ gc[1] \notin GramCatNames THEN "KeyError"
    ELSE IF row.freqlivres = None \/ row.freqfilms2 = None THEN "TypeError"
    ELSE IF ~IsFloatText(row.freqlivres) \/ ~IsFloatText(row.freqfilms2) THEN "ValueError"
    ELSE IF row.syll_cv = None \/ row.orthosyll_cv = None THEN "TypeError"
    ELSE IF row.infover # <<>> THEN "AttributeError"
    ELSE "none"

\* the Word readCorpus builds from a row
WordOfRow(row) ==
    WordNew([ortho |-> row.ortho, phonology |-> row.phon, lemme |-> row.lemme,
             gramCat |-> row.cgram,
             gender |-> IF row.genre # <<>> THEN row.genre ELSE None,
             number |-> IF row.nombre # <<>> THEN row.nombre ELSE None,
             infoVerb |-> None,
             rawSyllCV |-> row.syll_cv, rawOrthosyllCV |-> row.orthosyll_cv,
             frequencyFilm |-> row.freqfilms2])

CorpusInit ==
    /\ corpus \in StringsUpTo(Rows, MaxRows)
    /\ corpusPC = "reading"
    /\ corpusRow = 0
    /\ readWords = <<>>

\* one turn of the loop over the rows
ReadRow ==
    /\ corpusPC = "reading"
    /\ corpusRow < Len(corpus)
    /\ LET row == corpus[corpusRow + 1]
       IN IF ~IsRead(row)
          THEN UNCHANGED <<corpusPC, readWords>>
          ELSE IF RowException(row) # "none"
          THEN corpusPC' = RowException(row) /\ UNCHANGED readWords
          ELSE readWords' = Append(readWords, WordOfRow(row)) /\ UNCHANGED corpusPC
    /\ corpusRow' = corpusRow + 1
    /\ UNCHANGED corpus
    /\ UNCHANGED NotCorpus

\* return words
ReadCorpusReturn ==
    /\ corpusPC = "reading"
    /\ corpusRow = Len(corpus)
    /\ corpusPC' = "returned"
    /\ UNCHANGED <<corpus, corpusRow, readWords>>
    /\ UNCHANGED NotCorpus

NextCorpus == ReadRow \/ ReadCorpusReturn

\* the rows before position n that are read and well formed
WellFormedRows(n) ==
    SelectSeq(SubSeq(corpus, 1, n), LAMBDA row : IsRead(row) /\ ~Malformed(row))

\* C17: a malformed row is skipped and does not abort readCorpus: no exception
\* leaves the loop, and the words read are those of the well-formed rows met
\* so far, before and after the malformed ones.
C17_MalformedRowSkipped ==
    /\ corpusPC \in {"reading", "returned"}
    /\ Len(readWords) = Len(WellFormedRows(corpusRow))
    /\ \A k \in 1..Len(readWords) : readWords[k].ortho = WellFormedRows(corpusRow)[k].ortho

(***************************************************************************)
(* Starboard.__init__ (keyboard.py 347-366) for every order of the three   *)
(* positions and every key count of a position, a negative count included. *)
(***************************************************************************)
MaxPartSize == 12
MaxNegSize == 1

PartSizes == (0 - MaxNegSize)..MaxPartSize
PartOrders ==
    { o \in [1..3 -> {"onset", "nucleus", "coda"}] :
        \A i, j \in 1..3 : o[i] = o[j] => i = j }
NbKeysArgs ==
    { [i \in 1..3 |-> <<o[i], n[i]>>] : o \in PartOrders, n \in [1..3 -> PartSizes] }

KbInit ==
    /\ nbKeysArg \in NbKeysArgs
    /\ starboard = [state |-> "none"]

\* Starboard(nbKeysPerSyllabicPart): the ValueError of line 355, or the new
\* object with its keyIDinSyllabicPart
StarboardNew ==
    /\ starboard.state = "none"
    /\ starboard' =
         IF Len(allowedKeys) # SumSizes(nbKeysArg)
         THEN [state |-> "ValueError"]
         ELSE [state |-> "constructed",
               keyIDinSyllabicPart |-> StarboardInit(nbKeysArg)]
    /\ UNCHANGED <<nbKeysArg, NotKb>>

NextStarboard == StarboardNew

KeysOf(part) == Range(starboard.keyIDinSyllabicPart[part])

\* C18: the key lists of the onset, the nucleus and the coda of a
\* constructed Starboard are pairwise disjoint, none lists a key twice, and
\* together they hold exactly the allowed keys; the constructor raises when
\* the key counts of the positions do not add up to the number of allowed keys
C18_StarboardPartition ==
    starboard.state # "none" =>
        IF SumSizes(nbKeysArg) # Len(allowedKeys)
        THEN starboard.state = "ValueError"
        ELSE /\ starboard.state = "constructed"
             /\ DOMAIN starboard.keyIDinSyllabicPart = {"onset", "nucleus", "coda"}
             /\ KeysOf("onset") \cap KeysOf("nucleus") = {}
             /\ KeysOf("onset") \cap KeysOf("coda") = {}
             /\ KeysOf("nucleus") \cap KeysOf("coda") = {}
             /\ KeysOf("onset") \cup KeysOf("nucleus") \cup KeysOf("coda")
                    = Range(allowedKeys)
             /\ \A part \in {"onset", "nucleus", "coda"} :
                    Cardinality(KeysOf(part))
                        = Len(starboard.keyIDinSyllabicPart[part])

\* a keyboard built with keys in each of the three positions
C18_Witness ==
    /\ starboard.state = "constructed"
    /\ \A part \in {"onset", "nucleus", "coda"} :
           starboard.keyIDinSyllabicPart[part] # <<>>


(***************************************************************************)
(* The biphonemes of a syllable against its phonemes by position, checked  *)
(* under Spec.                                                             *)
(***************************************************************************)
OrderedPairs(l) ==
    UNION { { <<l[i], l[j]>> : j \in { k \in DOMAIN l : k > i } } : i \in DOMAIN l }

\* C20: in every syllable built, the biphonemes registered for a position are
\* exactly the ordered pairs (p_i, p_j), i < j, of the phonemes the syllable
\* stores for that position, so that no pair holds a phoneme of another position
C20_BiphonemesOfPart ==
    \A s \in Syllables : \A part \in Parts :
        Range(s.biphonemesByPart[part]) = OrderedPairs(s.phonemesByPart[part])



(***************************************************************************)
(* SyllableCollection.lexicalAmbiguityScore (grammar.py 803-894) on the    *)
(* words that Dictionary.analyseSyllabification has handed to              *)
(* updateSyllable, each one tracked by the syllables it is made of         *)
(* (Syllable.trackWord, grammar.py 549-553).                               *)
(***************************************************************************)
MaxLexWords == 3

LexWord(ortho, syllables, frequency) ==
    [ortho |-> ortho, phonology |-> Flatten(syllables), syllables |-> syllables,
     frequency |-> frequency]

\* The lexicon, the most frequent word first as analyseSyllabification sorts it
LexPool ==
    << LexWord("w1", << <<"t", "R", "a">> >>, 3),
       LexWord("w2", << <<"R", "a">> >>, 2),
       LexWord("w3", << <<"t", "R", "a">>, <<"t", "a">> >>, 2),
       LexWord("w4", << <<"t", "a">> >>, 1),
       LexWord("w5", << <<"t", "a">> >>, 1),
       LexWord("w6", << <<"R", "a">>, <<"t", "a">> >>, 1),
       LexWord("w7", << <<"t", "a">>, <<"t", "a">> >>, 1) >>

RECURSIVE SumFrequency(_)
SumFrequency(ws) == IF ws = <<>> THEN 0 ELSE ws[1].frequency + SumFrequency(Tail(ws))

\* SyllableCollection.syllable_names after the words ws
LexSyllableNames(ws) == UNION { Range(ws[i].syllables) : i \in DOMAIN ws }

\* the words a syllable has tracked, once for each place it has in the word
TrackedBy(ws, name) ==
    Flatten([i \in DOMAIN ws |->
                [k \in 1..Count(name, ws[i].syllables) |-> ws[i]]])

\* Syllable.phonoWords[phono] of the syllable name, <<>> when phono is no key
phonoWords(ws, name, phono) ==
    SelectSeq(TrackedBy(ws, name), LAMBDA w : w.phonology = phono)

PhonoWordKeys(ws, name) ==
    { TrackedBy(ws, name)[i].phonology : i \in DOMAIN TrackedBy(ws, name) }

\* lines 833-842 and 851-860: the words behind a shortened phonology, looked
\* up in the syllable that getSyllable finds under that phonology
ShortScore(ws, phono_short_word) ==
    IF phono_short_word \in LexSyllableNames(ws)
    THEN SumFrequency(phonoWords(ws, phono_short_word, phono_short_word))
    ELSE 0

\* lines 818-862: what the phonology phono_word1 of syll1 adds when syll1
\* holds both phonemes
TripleAmount(ws, name, phono_word1, phoneme1, phoneme2, syllabicPart) ==
    LET syll1 == SyllableNew(name, <<>>, 0)
        short_syllable1 == replacePhonemeInSyllabicPart(syll1, phoneme1, <<>>, syllabicPart)
        short_syllable2 == replacePhonemeInSyllabicPart(syll1, phoneme2, <<>>, syllabicPart)
        word == phonoWords(ws, name, phono_word1)[1]
        base_score1 == SumFrequency(phonoWords(ws, name, phono_word1))
        base_score_short1 ==
            ShortScore(ws, replaceSyllables(word.phonology, name, short_syllable1))
        base_score_short2 ==
            ShortScore(ws, replaceSyllables(word.phonology, name, short_syllable2))
    IN base_score1 + base_score_short1 + base_score_short2
           - Max3(base_score1, base_score_short1, base_score_short2)

\* lines 876-890: what it adds when syll1 holds phoneme1 only
PairAmount(ws, name, phono_word1, phoneme1, phoneme2, syllabicPart) ==
    LET syll1 == SyllableNew(name, <<>>, 0)
        p1_to_p2 == replacePhonemeInSyllabicPart(syll1, phoneme1, <<phoneme2>>, syllabicPart)
        word == phonoWords(ws, name, phono_word1)[1]
        base_score1 == SumFrequency(phonoWords(ws, name, phono_word1))
        phono_word2 == replaceSyllables(word.phonology, name, p1_to_p2)
    IN IF p1_to_p2 \in LexSyllableNames(ws)
          /\ phono_word2 \in PhonoWordKeys(ws, p1_to_p2)
       THEN Min2(base_score1, SumFrequency(phonoWords(ws, p1_to_p2, phono_word2)))
       ELSE 0

HoldsInPart(name, phoneme, syllabicPart) ==
    InSeq(phoneme, SyllableNew(name, <<>>, 0).phonemesByPart[syllabicPart])

\* the (syllable, phonology) turns of the two nested loops
LexTurns(ws, phoneme1, syllabicPart) ==
    { <<name, phono>> \in LexSyllableNames(ws) \X { ws[i].phonology : i \in DOMAIN ws } :
        /\ HoldsInPart(name, phoneme1, syllabicPart)
        /\ phono \in PhonoWordKeys(ws, name) }

LexAmounts(ws, phoneme1, phoneme2, syllabicPart) ==
    [t \in LexTurns(ws, phoneme1, syllabicPart) |->
        IF HoldsInPart(t[1], phoneme2, syllabicPart)
        THEN TripleAmount(ws, t[1], t[2], phoneme1, phoneme2, syllabicPart)
        ELSE PairAmount(ws, t[1], t[2], phoneme1, phoneme2, syllabicPart)]

LexInit == lexWords = <<>> /\ lexCall = [op |-> "none"]

\* analyseSyllabification hands the next word of the sorted lexicon to
\* updateSyllable, once for each of its syllables
LexTrackWord ==
    /\ lexCall.op = "none"
    /\ Len(lexWords) < MaxLexWords
    /\ \E i \in DOMAIN LexPool :
          /\ \A k \in DOMAIN lexWords : \E j \in 1..(i - 1) : LexPool[j] = lexWords[k]
          /\ lexWords' = Append(lexWords, LexPool[i])
    /\ UNCHANGED <<lexCall, NotLex>>

\* lexicalAmbiguityScore(phoneme1, phoneme2, syllabicPart), as its callers call
\* it: with two different phonemes
LexScore ==
    /\ lexCall.op = "none"
    /\ \E phoneme1 \in Alphabet, phoneme2 \in Alphabet, syllabicPart \in Parts :
          /\ phoneme1 # phoneme2
          /\ LET amounts == LexAmounts(lexWords, phoneme1, phoneme2, syllabicPart)
             IN lexCall' = [op |-> "lexicalAmbiguityScore", phoneme1 |-> phoneme1,
                            phoneme2 |-> phoneme2, syllabicPart |-> syllabicPart,
                            amounts |-> amounts,
                            score |-> SumOver(DOMAIN amounts, amounts)]
    /\ UNCHANGED <<lexWords, NotLex>>

NextLex == LexTrackWord \/ LexScore

\* the total frequency of the words of the lexicon with the phonology phono
TotalFrequency(phono) ==
    SumFrequency(SelectSeq(lexWords, LAMBDA w : w.phonology = phono))

SyllableWithout(name, phoneme, syllabicPart) ==
    replacePhonemeInSyllabicPart(SyllableNew(name, <<>>, 0), phoneme, <<>>, syllabicPart)

\* C21: for a syllable s that holds both phonemes in the position and a word
\* phonology W that uses s, lexicalAmbiguityScore adds the sum of the two
\* smallest of: the total frequency of the words W, of the words W with s
\* replaced by s without phoneme1, and of the words W with s replaced by s
\* without phoneme2
C21_TripleAmount ==
    lexCall.op = "lexicalAmbiguityScore" =>
        \A t \in DOMAIN lexCall.amounts :
            HoldsInPart(t[1], lexCall.phoneme2, lexCall.syllabicPart) =>
                LET f0 == TotalFrequency(t[2])
                    f1 == TotalFrequency(replaceSyllables(t[2], t[1],
                              SyllableWithout(t[1], lexCall.phoneme1, lexCall.syllabicPart)))
                    f2 == TotalFrequency(replaceSyllables(t[2], t[1],
                              SyllableWithout(t[1], lexCall.phoneme2, lexCall.syllabicPart)))
                IN lexCall.amounts[t] = f0 + f1 + f2 - Max3(f0, f1, f2)


(***************************************************************************)
(* scorePermutation against the signed sum of the frequencies, checked     *)
(* under SpecOrder on the permutation optimizeOrder holds as its best.     *)
(***************************************************************************)
sign(n) == IF n > 0 THEN 1 ELSE IF n < 0 THEN -1 ELSE 0

SignedSum(col, permutation) ==
    SumOver(DOMAIN col,
            [pair \in DOMAIN col |->
                col[pair] * sign(index(permutation, pair[2]) - index(permutation, pair[1]))])

\* C22: the score of a permutation is the sum over the registered biphonemes
\* (a, b) of their frequency times the sign of the position of b minus the
\* position of a; a biphoneme with a = b adds nothing
C22_ScoreIsSignedSum ==
    ordPC \in {"scanning", "done"} =>
        bestScore = SignedSum(biphonemes, bestPermutation)


(***************************************************************************)
(* BiphonemeCollection.generateBiphonemeOrderMatrix (grammar.py 351-377),  *)
(* called once optimizeOrder has registered its best permutation.          *)
(***************************************************************************)
\* one turn of the inner loop: the two dictionaries after the phoneme at p1
\* has been put before and after the phoneme at p2 of the others
MatrixTurn(col, bestPermut, p1, p2, acc) ==
    LET phoneme1 == bestPermut[p1 + 1]
        permut_without_phonem == Take(bestPermut, p1) \o Drop(bestPermut, p1 + 1)
        phoneme2 == permut_without_phonem[p2 + 1]
        left_permut == Take(permut_without_phonem, p2) \o <<phoneme1, phoneme2>>
                           \o Drop(permut_without_phonem, p2 + 1)
        right_permut == Take(permut_without_phonem, p2) \o <<phoneme2, phoneme1>>
                            \o Drop(permut_without_phonem, p2 + 1)
        left_score == scorePermutation(col, left_permut)
        right_score == scorePermutation(col, right_permut)
        symbol == IF right_score < left_score THEN ">"
                  ELSE IF right_score > left_score THEN "<" ELSE "="
        mirrored == IF symbol = ">" THEN "<" ELSE IF symbol = "<" THEN ">" ELSE "="
    IN [order |-> (<<phoneme1, phoneme2>> :> symbol) @@ (<<phoneme2, phoneme1>> :> mirrored)
                      @@ acc.order,
        score |-> (<<phoneme1, phoneme2>> :> (right_score - left_score)) @@ acc.score]

RECURSIVE MatrixLoop(_, _, _, _, _)
MatrixLoop(col, bestPermut, p1, p2, acc) ==
    IF p1 >= Len(bestPermut) - 1 THEN acc
    ELSE IF p2 >= Len(bestPermut) - 1
         THEN MatrixLoop(col, bestPermut, p1 + 1, 0, acc)
         ELSE MatrixLoop(col, bestPermut, p1, p2 + 1,
                         MatrixTurn(col, bestPermut, p1, p2, acc))

generateBiphonemeOrderMatrix(col, bestPermut, oldScores) ==
    MatrixLoop(col, bestPermut, 0, 0, [order |-> EmptyCol, score |-> oldScores])

GenerateBiphonemeOrderMatrix ==
    /\ ordPC = "done"
    /\ mxPC = "idle"
    /\ LET m == generateBiphonemeOrderMatrix(biphonemes, self_bestPermutation,
                                             pairwiseBiphonemeOrderScore)
       IN /\ pairwiseBiphonemeOrder' = m.order
          /\ pairwiseBiphonemeOrderScore' = m.score
    /\ mxPC' = "done"
    /\ UNCHANGED NotMx

\* the score of the best permutation with a taken out and put back just
\* before b, and with a put back just after b
ScoreBefore(a, b) ==
    LET others == SelectSeq(self_bestPermutation, LAMBDA x : x # a)
        i == index(others, b)
    IN scorePermutation(biphonemes, Take(others, i) \o <<a, b>> \o Drop(others, i + 1))

ScoreAfter(a, b) ==
    LET others == SelectSeq(self_bestPermutation, LAMBDA x : x # a)
        i == index(others, b)
    IN scorePermutation(biphonemes, Take(others, i) \o <<b, a>> \o Drop(others, i + 1))

DistinctPairs ==
    { pair \in Range(self_bestPermutation) \X Range(self_bestPermutation) :
        pair[1] # pair[2] }

\* C23: after generateBiphonemeOrderMatrix, for every ordered pair (a, b) of
\* different phonemes of the best permutation, pairwiseBiphonemeOrder[(a, b)]
\* is '>', '<' or '=' as the score with a just before b is greater than, less
\* than or equal to the score with b just before a, the entry of (b, a) is the
\* mirrored symbol, and pairwiseBiphonemeOrderScore has an entry for (a, b) and
\* one for (b, a), of opposite sign, equal to the score delta
C23_OrderMatrix ==
    mxPC = "done" =>
        \A pair \in DistinctPairs :
            LET a == pair[1]
                b == pair[2]
            IN /\ pair \in DOMAIN pairwiseBiphonemeOrder
               /\ pairwiseBiphonemeOrder[pair] =
                     (IF ScoreBefore(a, b) > ScoreAfter(a, b) THEN ">"
                      ELSE IF ScoreBefore(a, b) < ScoreAfter(a, b) THEN "<" ELSE "=")
               /\ <<b, a>> \in DOMAIN pairwiseBiphonemeOrder
               /\ (pairwiseBiphonemeOrder[pair] = ">") = (pairwiseBiphonemeOrder[<<b, a>>] = "<")
               /\ (pairwiseBiphonemeOrder[pair] = "=") = (pairwiseBiphonemeOrder[<<b, a>>] = "=")
               /\ pair \in DOMAIN pairwiseBiphonemeOrderScore
               /\ <<b, a>> \in DOMAIN pairwiseBiphonemeOrderScore
               /\ pairwiseBiphonemeOrderScore[pair] = ScoreAfter(a, b) - ScoreBefore(a, b)
               /\ pairwiseBiphonemeOrderScore[<<b, a>>] = 0 - pairwiseBiphonemeOrderScore[pair]


(***************************************************************************)
(* The greedy ordering of the features at the end of                       *)
(* extractDiscriminatingFeatures (featureextractor.py 121-170), one turn   *)
(* of its loop at a time.                                                  *)
(***************************************************************************)
\* wordIsDiscrminatedFromByFeature: the other words of the group of a word
\* that the feature discriminates
GroupDiscriminatedFrom(lemmeWords, feature) ==
    IF Cardinality(OrthosUsing(lemmeWords, feature)) = 1
    THEN {lemmeWords[k] :
             k \in {i \in 1..Len(lemmeWords) :
                       \E ortho \in OrthosUsing(lemmeWords, feature) :
                           ~WordEq(lemmeWords[i], FirstWithOrtho(lemmeWords, ortho))}}
    ELSE {}

DiscriminatedFrom(selectedWords) ==
    [feature \in allFeaturesOf(selectedWords) |->
        UNION {GroupDiscriminatedFrom(lemmeWordsOf(selectedWords, lemme), feature) :
                   lemme \in LemmesOf(selectedWords)}]

MostWords(disc) == Cardinality(UNION {disc[f] : f \in DOMAIN disc})

SelInit ==
    /\ \E selectedWords \in TheoryEntries :
          /\ discriminatedBy = extractDiscriminatingFeatures(selectedWords)
          /\ discriminatedFrom = DiscriminatedFrom(selectedWords)
    /\ featureItems \in OrderedFeatures(discriminatedBy)
    /\ featuresSelected = <<>>
    /\ leftOverDiscriminatedFrom = [f \in DOMAIN discriminatedFrom |-> {}]
    /\ selPC = "loop"

\* one turn of the loop of line 136
GreedyPick ==
    /\ selPC = "loop"
    /\ Len(featuresSelected) < Len(featureItems)
    /\ LET leftOverFeatures ==
               SelectSeq(featureItems, LAMBDA f : ~InSeq(f, featuresSelected))
           sortedLeftOverFeatures ==
               SortedByPopularity(discriminatedBy, leftOverFeatures,
                                  MostWords(discriminatedBy))
           selectedFeature == sortedLeftOverFeatures[1]
       IN /\ featuresSelected' = Append(featuresSelected, selectedFeature)
          /\ leftOverDiscriminatedFrom' =
                IF featuresSelected = <<>> THEN leftOverDiscriminatedFrom
                ELSE [f \in DOMAIN leftOverDiscriminatedFrom |->
                         leftOverDiscriminatedFrom[f]
                             \ discriminatedFrom[featuresSelected[Len(featuresSelected)]]]
    /\ UNCHANGED <<discriminatedBy, discriminatedFrom, featureItems, selPC, NotSel>>

\* the loop has made its len(wordIsDiscrminatedByFeature) turns
GreedyReturn ==
    /\ selPC = "loop"
    /\ Len(featuresSelected) = Len(featureItems)
    /\ selPC' = "returned"
    /\ UNCHANGED <<discriminatedBy, discriminatedFrom, featureItems, featuresSelected,
                   leftOverDiscriminatedFrom, NotSel>>

NextSelect == GreedyPick \/ GreedyReturn

\* the words a feature discriminates that no selected feature discriminates
CurrentScore(f, selected) ==
    Cardinality(discriminatedBy[f] \ UNION {discriminatedBy[g] : g \in Range(selected)})

PickedBest ==
    featuresSelected' # featuresSelected =>
        \A g \in DOMAIN discriminatedBy \ Range(featuresSelected) :
            CurrentScore(featuresSelected'[Len(featuresSelected')], featuresSelected)
                >= CurrentScore(g, featuresSelected)

EveryFeatureOnce ==
    selPC = "returned" =>
        /\ Range(featuresSelected) = DOMAIN discriminatedBy
        /\ Len(featuresSelected) = Cardinality(DOMAIN discriminatedBy)

\* C24: each turn of the greedy selection takes, among the features not yet
\* selected, one with the highest current score, the score being counted
\* without the words that the features selected before already discriminate;
\* when the loop ends the ordering holds every feature exactly once
C24_GreedyPicksBestCurrent ==
    /\ [][PickedBest]_vars
    /\ []EveryFeatureOnce

(***************************************************************************)
(* getPossibleStrokes on a constructed Starboard (keyboard.py 428-483):    *)
(* the operators above, reading the keyIDinSyllabicPart of the object.     *)
(***************************************************************************)
MaxStrokeKeys == 3

\* A filter that keeps the keys of the other positions
KeepAllKeys(kb, keyPress, syllabicPart) == keyPress

KeysInPartOf(kb, keyPress, syllabicPart) ==
    SelectSeq(keyPress, LAMBDA k : InSeq(k, kb[syllabicPart]))

getSinglekeyKeypressOf(kb, syllabicPart) ==
    [i \in 1..Len(kb[syllabicPart]) |-> <<kb[syllabicPart][i]>>]

getFingersInSyllabicPartOf(kb, syllabicPart) ==
    SelectSeq(fingers, LAMBDA finger :
        \E i \in 1..Len(possibleKeypress[finger]) :
            0 < Len(SelectSeq(possibleKeypress[finger][i],
                              LAMBDA k : InSeq(k, kb[syllabicPart]))))

RECURSIVE buildStrokesOf(_, _, _, _, _), buildStrokesLoopOf(_, _, _, _, _, _)
buildStrokesOf(kb, fs, nbKeysLeft, stroke, syllabicPart) ==
    IF Len(fs) = 0 \/ nbKeysLeft <= 0
    THEN IF Len(stroke) > 0 /\ nbKeysLeft = 0 THEN <<stroke>> ELSE <<>>
    ELSE buildStrokesLoopOf(kb, fs, nbKeysLeft, stroke, syllabicPart, 1)

buildStrokesLoopOf(kb, fs, nbKeysLeft, stroke, syllabicPart, i) ==
    LET fingerKeypress == possibleKeypress[fs[1]]
    IN  IF i > Len(fingerKeypress) THEN <<>>
        ELSE LET keyPress == fingerKeypress[i]
                 keysInPart == KeysInPartOf(kb, keyPress, syllabicPart)
                 found ==
                    IF Len(keyPress) = 0
                    THEN buildStrokesOf(kb, Tail(fs), nbKeysLeft, stroke, syllabicPart)
                    ELSE IF Len(keyPress) <= nbKeysLeft /\ Len(keysInPart) = Len(keyPress)
                    THEN buildStrokesOf(kb, Tail(fs), nbKeysLeft - Len(keyPress),
                                        stroke \o keysInPart, syllabicPart)
                    ELSE <<>>
             IN  found \o buildStrokesLoopOf(kb, fs, nbKeysLeft, stroke, syllabicPart, i + 1)

getPossibleStrokesOf(kb, syllabicPart, nbKeysInStroke) ==
    IF nbKeysInStroke = 1 THEN getSinglekeyKeypressOf(kb, syllabicPart)
    ELSE Reverse(buildStrokesOf(kb, getFingersInSyllabicPartOf(kb, syllabicPart),
                                nbKeysInStroke, <<>>, syllabicPart))

\* the keyboards getPossibleStrokes is called on: the positions in the order
\* of the default keyboard, every split of the keys
StrokesKbInit ==
    /\ nbKeysArg \in { a \in NbKeysArgs :
                          <<a[1][1], a[2][1], a[3][1]>> = <<"onset", "nucleus", "coda">> }
    /\ starboard = [state |-> "none"]

\* a call of getPossibleStrokes(pos, n) on the constructed keyboard
GetPossibleStrokes ==
    /\ starboard.state = "constructed"
    /\ strokesCall.op = "idle"
    /\ \E syllabicPart \in {"onset", "nucleus", "coda"}, nbKeysInStroke \in 1..MaxStrokeKeys :
         strokesCall' =
            [op |-> "returned", syllabicPart |-> syllabicPart,
             nbKeysInStroke |-> nbKeysInStroke,
             strokes |-> getPossibleStrokesOf(starboard.keyIDinSyllabicPart,
                                              syllabicPart, nbKeysInStroke)]
    /\ UNCHANGED NotStk

NextStrokes == StarboardNew \/ GetPossibleStrokes

\* the key sets a finger can press, the empty one included
FingerKeysets(finger) ==
    { Range(possibleKeypress[finger][i]) : i \in 1..Len(possibleKeypress[finger]) }

\* the key sets of n keys of the position made of at most one allowed
\* keypress per finger
RECURSIVE Combinations(_, _, _)
Combinations(keys, fs, n) ==
    IF fs = <<>> THEN (IF n = 0 THEN {{}} ELSE {})
    ELSE UNION { { p \cup rest : rest \in Combinations(keys, Tail(fs), n - Cardinality(p)) } :
                 p \in { q \in FingerKeysets(fs[1]) :
                            q \subseteq keys /\ Cardinality(q) <= n } }

Ascending(stroke) == \A i \in 1..(Len(stroke) - 1) : stroke[i] < stroke[i + 1]

\* C26: getPossibleStrokes(pos, n), n >= 1, returns exactly the strokes made
\* of at most one allowed keypress per finger, all keys in pos, n keys in
\* total: each stroke has n distinct keys of pos in ascending order, none is
\* returned twice and none is missing
C26_PossibleStrokesExact ==
    strokesCall.op = "returned" =>
        LET keys == Range(starboard.keyIDinSyllabicPart[strokesCall.syllabicPart])
            strokes == strokesCall.strokes
            n == strokesCall.nbKeysInStroke
        IN  /\ \A i \in 1..Len(strokes) :
                 /\ Len(strokes[i]) = n
                 /\ Ascending(strokes[i])
                 /\ Range(strokes[i]) \subseteq keys
            /\ Cardinality({ strokes[i] : i \in 1..Len(strokes) }) = Len(strokes)
            /\ { Range(strokes[i]) : i \in 1..Len(strokes) }
                   = Combinations(keys, fingers, n)

\* strokes of two keys, some pressed by one finger and some by two
C26_Witness ==
    /\ strokesCall.op = "returned"
    /\ strokesCall.nbKeysInStroke = 2
    /\ \E i, j \in 1..Len(strokesCall.strokes) :
         /\ \E f \in 1..Len(fingers) :
                Range(strokesCall.strokes[i]) \in FingerKeysets(fingers[f])
         /\ \A f \in 1..Len(fingers) :
                Range(strokesCall.strokes[j]) \notin FingerKeysets(fingers[f])

(***************************************************************************)
(* Dictionary.generateBaseKeymap (dictionary.py 165-247) on the default    *)
(* Starboard, the keyboard main hands to it (dictionary.py 363-364).  The  *)
(* phonemes are those of Phoneme.consonantPhonemes and                     *)
(* Phoneme.nucleusPhonemes (grammar.py 34-35), written as one-character    *)
(* strings ("deg" and "sect" stand for the two non-ASCII vowels).          *)
(***************************************************************************)
MaxOveruse == 2

baseConsonantPhonemes ==
    <<"R", "t", "s", "p", "l", "k", "m", "d", "v", "j", "n", "f", "b", "Z", "w", "z",
      "S", "g", "N", "G">>
baseNucleusPhonemes ==
    <<"a", "e", "i", "E", "@", "o", "deg", "sect", "u", "y", "5", "O", "9", "8", "2", "1">>

phonemesByPart ==
    [onset |-> baseConsonantPhonemes, nucleus |-> baseNucleusPhonemes,
     coda |-> baseConsonantPhonemes]

\* Starboard(): the default split of the keys
defaultKeyboard == StarboardInit(<< <<"onset", 8>>, <<"nucleus", 4>>, <<"coda", 10>> >>)

\* The inputs of one position.  sortedPhonemes: the phonemes of the
\* position's collection, the most frequent first; bestPermutation: the
\* registered order of the phonemes that occur in biphonemes; ambiguity: the
\* keys of lexicalAmbiguity[part], every pair of the alphabet, lowest score
\* first (analysePhonemLexicalAmbiguity, grammar.py 995-1003).
BaseShapes == {"whole", "partial"}

EveryOther(s) == SelectSeq(s, LAMBDA p : \E i \in 1..Len(s) : s[i] = p /\ i % 2 = 0)

\* _getLexicalAmbiguityScores: the pairs in the order of its two loops
AlphabetPairs(alphabet) ==
    Flatten([i \in 1..(Len(alphabet) - 1) |->
                [j \in 1..(Len(alphabet) - i) |-> <<alphabet[i], alphabet[i + j]>>]])

BaseInput(part, size, shape) ==
    LET alphabet == phonemesByPart[part]
        n == Min2(size, Len(alphabet))
    IN  IF shape = "whole"
        THEN [sortedPhonemes |-> Take(alphabet, n),
              bestPermutation |-> Reverse(Take(alphabet, n)),
              ambiguity |-> AlphabetPairs(alphabet)]
        ELSE [sortedPhonemes |-> Reverse(Drop(alphabet, Len(alphabet) - n)),
              bestPermutation |-> EveryOther(Drop(alphabet, Len(alphabet) - n)),
              ambiguity |-> Reverse(AlphabetPairs(alphabet))]

\* lines 186-189: the single keys, in the order of the best permutation
RECURSIVE AssignSingleKeys(_, _, _, _)
AssignSingleKeys(layout, order, singleKeys, singleKeyTopPhonemes) ==
    IF order = <<>> THEN layout
    ELSE IF InSeq(Head(order), singleKeyTopPhonemes)
    THEN AssignSingleKeys(addToLayout(layout, Head(singleKeys), Head(order)),
                          Tail(order), Tail(singleKeys), singleKeyTopPhonemes)
    ELSE AssignSingleKeys(layout, Tail(order), singleKeys, singleKeyTopPhonemes)

MaxUse(keyOveruse, stroke) ==
    CHOOSE m \in { keyOveruse[stroke[i]] : i \in 1..Len(stroke) } :
        \A i \in 1..Len(stroke) : keyOveruse[stroke[i]] <= m

\* lines 204-208: the strokes popped before one is accepted; the index of the
\* accepted stroke, or 0 when the list runs out
FirstAccepted(multikeys, keyOveruse) ==
    LET accepted == { i \in 1..Len(multikeys) :
                        MaxUse(keyOveruse, multikeys[i])
                            < MaxOveruse + 2 * (Len(multikeys[i]) - 2) }
    IN  IF accepted = {} THEN 0
        ELSE CHOOSE i \in accepted : \A j \in accepted : i <= j

\* lines 198-219: the multi-key strokes; the result is the layout and the
\* phonemes left unassigned
RECURSIVE AssignMultikeys(_, _, _, _, _, _)
AssignMultikeys(layout, order, multiKeyPhonemes, multikeys, keyOveruse, unassignedPhonemes) ==
    IF order = <<>> THEN [layout |-> layout, unassigned |-> unassignedPhonemes]
    ELSE IF ~InSeq(Head(order), multiKeyPhonemes)
    THEN AssignMultikeys(layout, Tail(order), multiKeyPhonemes, multikeys, keyOveruse,
                         unassignedPhonemes)
    ELSE LET i == FirstAccepted(multikeys, keyOveruse)
         IN  IF i = 0
             THEN AssignMultikeys(layout, Tail(order), multiKeyPhonemes, <<>>, keyOveruse,
                                  Append(unassignedPhonemes, Head(order)))
             ELSE AssignMultikeys(
                      addToLayout(layout, multikeys[i], Head(order)),
                      Tail(order), multiKeyPhonemes,
                      SubSeq(multikeys, i + 1, Len(multikeys)),
                      [k \in DOMAIN keyOveruse |->
                          IF InSeq(k, multikeys[i]) THEN keyOveruse[k] + 1
                          ELSE keyOveruse[k]],
                      unassignedPhonemes)

greadyAssignKeymapPartition(layout, syllabicPart, input) ==
    LET singleKeys == getPossibleStrokesOf(defaultKeyboard, syllabicPart, 1)
        multikeys == getPossibleStrokesOf(defaultKeyboard, syllabicPart, 2)
                     \o getPossibleStrokesOf(defaultKeyboard, syllabicPart, 3)
                     \o getPossibleStrokesOf(defaultKeyboard, syllabicPart, 4)
        nbSingleKeys == Len(singleKeys)
        sortedPhonemes == input.sortedPhonemes
        excludedPhonemes ==
            SelectSeq(sortedPhonemes, LAMBDA p : ~InSeq(p, input.bestPermutation))
        order == input.bestPermutation \o excludedPhonemes
    IN  AssignMultikeys(
            AssignSingleKeys(layout, order, singleKeys, Take(sortedPhonemes, nbSingleKeys)),
            order, Drop(sortedPhonemes, nbSingleKeys), multikeys,
            [k \in Range(possibleKeys) |-> 0], <<>>)

getStrokesOfPhonemeOf(kb, layout, phoneme, syllabicPart) ==
    StrokesOf(SelectSeq(layout, LAMBDA item :
        /\ InSeq(item[1][1], kb[syllabicPart])
        /\ InSeq(phoneme, item[2])))

getLowAmbiguityPhonemes(phonemeName, ambiguity) ==
    SelectSeq(ambiguity, LAMBDA p : p[1] = phonemeName \/ p[2] = phonemeName)

\* A sharing step that takes the first stroke of the other phoneme, however
\* many phonemes it holds
OverSharedStroke(layout, phonemeName, syllabicPart, pairs) ==
    LET OtherPhoneme(pr) == IF pr[1] = phonemeName THEN pr[2] ELSE pr[1]
        Held(pr) == getStrokesOfPhonemeOf(defaultKeyboard, layout, OtherPhoneme(pr),
                                         syllabicPart)
        found == { i \in 1..Len(pairs) : Held(pairs[i]) # <<>> }
    IN  IF found = {} THEN <<>>
        ELSE Held(pairs[CHOOSE i \in found : \A j \in found : i <= j])[1]

\* lines 234-245: the first stroke, over the pairs in order and the strokes of
\* the other phoneme in order, that holds one phoneme; <<>> when none does
SharedStroke(layout, phonemeName, syllabicPart, pairs) ==
    LET OtherPhoneme(pr) == IF pr[1] = phonemeName THEN pr[2] ELSE pr[1]
        Free(pr) ==
            SelectSeq(getStrokesOfPhonemeOf(defaultKeyboard, layout, OtherPhoneme(pr),
                                            syllabicPart),
                      LAMBDA s : Len(getPhonemesOfStroke(layout, s)) = 1)
        found == { i \in 1..Len(pairs) : Free(pairs[i]) # <<>> }
    IN  IF found = {} THEN <<>>
        ELSE Free(pairs[CHOOSE i \in found : \A j \in found : i <= j])[1]

\* lines 230-245: the unassigned phonemes share a stroke
RECURSIVE ShareStrokes(_, _, _, _)
ShareStrokes(layout, unassigned, syllabicPart, ambiguity) ==
    IF unassigned = <<>> THEN layout
    ELSE LET stroke == SharedStroke(layout, Head(unassigned), syllabicPart,
                                    getLowAmbiguityPhonemes(Head(unassigned), ambiguity))
         IN  ShareStrokes(IF stroke = <<>> THEN layout
                          ELSE addToLayout(layout, stroke, Head(unassigned)),
                          Tail(unassigned), syllabicPart, ambiguity)

\* the corpus analysed before the seed: the number of phonemes its
\* collections hold in a position (no more than the alphabet has) and the
\* shape of the orders
BaseInit ==
    /\ baseCorpus \in [size : 0..Len(baseConsonantPhonemes), shape : BaseShapes]
    /\ baseLayout = clearLayout
    /\ baseInputs = <<>>
    /\ baseParts = <<"onset", "nucleus", "coda">>

\* one turn of the loop of line 224
BaseKeymapTurn ==
    /\ baseParts # <<>>
    /\ LET syllabicPart == Head(baseParts)
             input == BaseInput(syllabicPart, baseCorpus.size, baseCorpus.shape)
             seeded == greadyAssignKeymapPartition(baseLayout, syllabicPart, input)
         IN  /\ baseLayout' = ShareStrokes(seeded.layout, seeded.unassigned, syllabicPart,
                                           input.ambiguity)
             /\ baseInputs' = Append(baseInputs,
                    [syllabicPart |-> syllabicPart, sortedPhonemes |-> input.sortedPhonemes,
                     unassigned |-> seeded.unassigned])
    /\ baseParts' = Tail(baseParts)
    /\ UNCHANGED <<baseCorpus, NotBase>>

NextBase == BaseKeymapTurn

MaxReplaceLen == 2

ReplaceCap == (MaxPhonoLen + 1) * (MaxReplaceLen + 1)

ReplaceStrings(n) == StringsUpTo({"n", "i"}, n) \cup {<<>>}

ReplaceInit ==
    /\ rsArgs \in [phonology : ReplaceStrings(MaxPhonoLen),
                   syll_orig : ReplaceStrings(MaxReplaceLen),
                   syll_final : ReplaceStrings(MaxReplaceLen)]
    /\ rsPhono = <<>>
    /\ rsI = 0
    /\ rsTurn = 0
    /\ rsPC = "called"

\* lines 212-215: the early return, or the start of the loop
ReplaceEnter ==
    /\ rsPC = "called"
    /\ rsPhono' = rsArgs.phonology
    /\ rsI' = 0
    /\ rsPC' = IF rsArgs.syll_orig = rsArgs.syll_final THEN "returned" ELSE "loop"
    /\ UNCHANGED <<rsArgs, rsTurn, NotReplace>>

\* lines 216-220: one test of the while condition; a turn of the loop when
\* find() is not -1, the return when it is
ReplaceTurn ==
    /\ rsPC = "loop"
    /\ LET found == find(From(rsPhono, rsI), rsArgs.syll_orig)
           pos == found + rsI
           phono == Slice(rsPhono, 0, pos) \o rsArgs.syll_final
                        \o From(rsPhono, Len(rsArgs.syll_orig) + pos)
       IN  IF found = -1
           THEN /\ rsPC' = "returned"
                /\ UNCHANGED <<rsPhono, rsI, rsTurn>>
           ELSE /\ rsPC' = "loop"
                /\ rsTurn' = 1 - rsTurn
                /\ IF Len(phono) <= ReplaceCap
                   THEN rsPhono' = phono /\ rsI' = pos + Len(rsArgs.syll_final)
                   ELSE UNCHANGED <<rsPhono, rsI>>
    /\ UNCHANGED <<rsArgs, NotReplace>>

NextReplace == ReplaceEnter \/ ReplaceTurn

\* C30: replaceSyllables terminates for every pair of strings (syll_orig,
\* syll_final), an empty syll_orig and a syll_final that contains syll_orig
\* included
C30_ReplaceTerminates == <>(rsPC = "returned")

(***************************************************************************)
(* The layout of a Starboard under addToLayout, removeFromLayout and       *)
(* clearLayout (keyboard.py 386-406), called in any order.                 *)
(***************************************************************************)
MaxLayoutCalls == 4

LayoutStrokes == {<<2>>, <<2, 3>>}
LayoutPhonemes == {"t", "R"}

FirstIndex(s, x) == CHOOSE i \in 1..Len(s) : s[i] = x /\ \A j \in 1..(i - 1) : s[j] # x

\* A removal that pops the phoneme and keeps the stroke in every case
removeKeepsStroke(layout, stroke, phoneme) ==
    LET i == StrokeIndex(layout, stroke)
    IN  IF i = 0 THEN [raised |-> "KeyError", layout |-> layout]
        ELSE IF InSeq(phoneme, layout[i][2])
        THEN [raised |-> "none",
              layout |-> [layout EXCEPT ![i] =
                            <<stroke, Without(layout[i][2], FirstIndex(layout[i][2], phoneme))>>]]
        ELSE [raised |-> "KeyError", layout |-> layout]

\* removeFromLayout: the exception it raises ("none" when it returns) and the
\* layout it leaves
removeFromLayout(layout, stroke, phoneme) ==
    LET i == StrokeIndex(layout, stroke)
    IN  IF i = 0 THEN [raised |-> "KeyError", layout |-> layout]
        ELSE IF Len(layout[i][2]) = 1 /\ layout[i][2][1] = phoneme
        THEN [raised |-> "none", layout |-> Without(layout, i)]
        ELSE IF InSeq(phoneme, layout[i][2])
        THEN [raised |-> "none",
              layout |-> [layout EXCEPT ![i] =
                            <<stroke, Without(layout[i][2], FirstIndex(layout[i][2], phoneme))>>]]
        ELSE [raised |-> "KeyError", layout |-> layout]

\* Starboard.__init__ (line 349): the empty layout
LayoutInit ==
    /\ layLayout = <<>>
    /\ layCall = [op |-> "none"]
    /\ layCalls = 0

AddToLayout ==
    /\ layCalls < MaxLayoutCalls
    /\ \E stroke \in LayoutStrokes, phoneme \in LayoutPhonemes :
         /\ layLayout' = addToLayout(layLayout, stroke, phoneme)
         /\ layCall' = [op |-> "addToLayout", stroke |-> stroke, phoneme |-> phoneme,
                        raised |-> "none", before |-> layLayout]
    /\ layCalls' = layCalls + 1
    /\ UNCHANGED NotLayout

RemoveFromLayout ==
    /\ layCalls < MaxLayoutCalls
    /\ \E stroke \in LayoutStrokes, phoneme \in LayoutPhonemes :
         LET r == removeFromLayout(layLayout, stroke, phoneme)
         IN  /\ layLayout' = r.layout
             /\ layCall' = [op |-> "removeFromLayout", stroke |-> stroke,
                            phoneme |-> phoneme, raised |-> r.raised, before |-> layLayout]
    /\ layCalls' = layCalls + 1
    /\ UNCHANGED NotLayout

ClearLayout ==
    /\ layCalls < MaxLayoutCalls
    /\ layLayout' = clearLayout
    /\ layCall' = [op |-> "clearLayout", stroke |-> <<>>, phoneme |-> "",
                   raised |-> "none", before |-> layLayout]
    /\ layCalls' = layCalls + 1
    /\ UNCHANGED NotLayout

NextLayout == AddToLayout \/ RemoveFromLayout \/ ClearLayout

\* C28: after any sequence of addToLayout, removeFromLayout and clearLayout
\* calls no stroke of the layout maps to an empty phoneme list, and a
\* removeFromLayout naming a stroke absent from the layout, or a phoneme not
\* assigned to that stroke, raises KeyError and leaves the layout unchanged
C28_LayoutNeverEmptyList ==
    /\ \A i \in 1..Len(layLayout) : layLayout[i][2] # <<>>
    /\ (/\ layCall.op = "removeFromLayout"
        /\ ~InSeq(layCall.phoneme, getPhonemesOfStroke(layCall.before, layCall.stroke)))
       => (layCall.raised = "KeyError" /\ layLayout = layCall.before)

\* a removal of a phoneme that another stroke holds and the named stroke,
\* present in the layout, does not
C28_Witness ==
    /\ layCall.op = "removeFromLayout"
    /\ layCall.raised = "KeyError"
    /\ getPhonemesOfStroke(layCall.before, layCall.stroke) # <<>>
    /\ \E i \in 1..Len(layLayout) : InSeq(layCall.phoneme, layLayout[i][2])

\* the positions named in the syllabicParts of the call: those still in
\* PARTS and those the loop has solved
ListedParts == Range(PARTS) \cup { part \in Parts : optStatus[part] # "none" }

\* C29: optimizeKeyboard called with a proper subset of the syllabic
\* positions leaves the layout entries (stroke to phonemes) of the positions
\* that are not listed unchanged
C29_UnlistedPositionsKept ==
    optPC # "idle" =>
        \A part \in Parts \ ListedParts :
            PositionLayout(phonemesAssignedToStroke, part) = PositionLayout(priorLayout, part)

(***************************************************************************)
(* A fork/join region (Syllable.optimizeBiphonemeOrder, grammar.py         *)
(* 589-609; analysePhonemSyllabicAmbiguity 921-958 and                     *)
(* analysePhonemLexicalAmbiguity 987-1024 have the same shape): the parent *)
(* opens a Pipe and starts a Process three times, joins the three workers  *)
(* and then receives from the three pipes.  A worker computes, sends its   *)
(* result and returns.  A pipe buffers a bounded number of bytes; here a   *)
(* result is a number of chunks, the pipe holds pipeCapacity chunks, send  *)
(* returns once every chunk is written and a write waits for room.         *)
(***************************************************************************)
MaxResultSize == 3
MaxPipeCapacity == 2

Workers == 1..3

ForkInit ==
    /\ resultSize \in [Workers -> 1..MaxResultSize]
    /\ pipeCapacity \in 1..MaxPipeCapacity
    /\ parentPC = <<"start", 1>>
    /\ workerPC = [w \in Workers |-> "unstarted"]
    /\ written = [w \in Workers |-> 0]
    /\ buffered = [w \in Workers |-> 0]
    /\ received = [w \in Workers |-> 0]

AfterWorker(step, w) ==
    IF w < 3 THEN <<step, w + 1>>
    ELSE IF step = "start" THEN <<"join", 1>>
    ELSE IF step = "join" THEN <<"recv", 1>>
    ELSE <<"done", 0>>

\* Pipe(); Process(...); p.start()
ParentStart ==
    /\ parentPC[1] = "start"
    /\ workerPC' = [workerPC EXCEPT ![parentPC[2]] = "running"]
    /\ parentPC' = AfterWorker("start", parentPC[2])
    /\ UNCHANGED <<resultSize, pipeCapacity, written, buffered, received, NotFork>>

\* the worker reaches its send_end.send(...)
WorkerCompute(w) ==
    /\ workerPC[w] = "running"
    /\ workerPC' = [workerPC EXCEPT ![w] = "sending"]
    /\ UNCHANGED <<resultSize, pipeCapacity, parentPC, written, buffered, received, NotFork>>

\* send writes the next chunk when the pipe has room for it
WorkerWrite(w) ==
    /\ workerPC[w] = "sending"
    /\ written[w] < resultSize[w]
    /\ buffered[w] < pipeCapacity
    /\ written' = [written EXCEPT ![w] = written[w] + 1]
    /\ buffered' = [buffered EXCEPT ![w] = buffered[w] + 1]
    /\ UNCHANGED <<resultSize, pipeCapacity, parentPC, workerPC, received, NotFork>>

\* send returns, the target function returns and the process exits
WorkerExit(w) ==
    /\ workerPC[w] = "sending"
    /\ written[w] = resultSize[w]
    /\ workerPC' = [workerPC EXCEPT ![w] = "exited"]
    /\ UNCHANGED <<resultSize, pipeCapacity, parentPC, written, buffered, received, NotFork>>

\* p.join() returns when the worker has exited
ParentJoin ==
    /\ parentPC[1] = "join"
    /\ workerPC[parentPC[2]] = "exited"
    /\ parentPC' = AfterWorker("join", parentPC[2])
    /\ UNCHANGED <<resultSize, pipeCapacity, workerPC, written, buffered, received, NotFork>>

\* recv reads a chunk from the pipe
ParentRead ==
    /\ parentPC[1] = "recv"
    /\ received[parentPC[2]] < resultSize[parentPC[2]]
    /\ buffered[parentPC[2]] > 0
    /\ buffered' = [buffered EXCEPT ![parentPC[2]] = buffered[parentPC[2]] - 1]
    /\ received' = [received EXCEPT ![parentPC[2]] = received[parentPC[2]] + 1]
    /\ UNCHANGED <<resultSize, pipeCapacity, parentPC, workerPC, written, NotFork>>

\* recv returns the result once it is read whole
ParentRecv ==
    /\ parentPC[1] = "recv"
    /\ received[parentPC[2]] = resultSize[parentPC[2]]
    /\ parentPC' = AfterWorker("recv", parentPC[2])
    /\ UNCHANGED <<resultSize, pipeCapacity, workerPC, written, buffered, received, NotFork>>

WorkerStep(w) == WorkerCompute(w) \/ WorkerWrite(w) \/ WorkerExit(w)
ParentStep == ParentStart \/ ParentJoin \/ ParentRead \/ ParentRecv

NextFork == ParentStep \/ \E w \in Workers : WorkerStep(w)

Init == SyllInit /\ CmpIdle /\ OptIdle /\ ThIdle /\ OrdIdle /\ RestIdle

Next == UpdateSyllable

Spec == Init /\ [][Next]_vars

InitCmp == SyllInit /\ CmpInit /\ OptIdle /\ ThIdle /\ OrdIdle /\ RestIdle

SpecCmp == InitCmp /\ [][Compare]_vars

InitOpt == SyllInit /\ CmpIdle /\ OptInit /\ ThIdle /\ OrdIdle /\ RestIdle

SpecOpt == InitOpt /\ [][OptimizeKeyboard \/ SolvePart]_vars

InitTheory ==
    /\ SyllInit /\ CmpIdle /\ OptNotCalled /\ ThInit /\ OrdIdle /\ RestIdle
    /\ phonemesAssignedToStroke \in TheoryLayouts

SpecTheory == InitTheory /\ [][AnalyseSyllable \/ BuildTheory]_vars

InitOrder == SyllInit /\ CmpIdle /\ OptIdle /\ ThIdle /\ OrdInit /\ RestIdle

NextOrder ==
    \/ OptimizeOrderStart
    \/ WindowScanRound
    \/ WindowScanIndexError
    \/ RegisterBestPermutation

SpecOrder == InitOrder /\ [][NextOrder]_vars

InitWord ==
    SyllInit /\ CmpIdle /\ OptIdle /\ ThIdle /\ OrdIdle /\ WordInit /\ GrIdle /\ CorpusIdle
        /\ KbIdle /\ ExtIdle

SpecWord == InitWord /\ [][NextWord]_vars

InitCorpus ==
    SyllInit /\ CmpIdle /\ OptIdle /\ ThIdle /\ OrdIdle /\ WordIdle /\ GrIdle /\ CorpusInit
        /\ KbIdle /\ ExtIdle

SpecCorpus == InitCorpus /\ [][NextCorpus]_vars

InitGreedy ==
    SyllInit /\ CmpIdle /\ OptIdle /\ ThIdle /\ OrdIdle /\ WordIdle /\ GrInit /\ CorpusIdle
        /\ KbIdle /\ ExtIdle

InitStarboard ==
    SyllInit /\ CmpIdle /\ OptIdle /\ ThIdle /\ OrdIdle
    /\ WordIdle /\ GrIdle /\ CorpusIdle /\ KbInit /\ ExtIdle
SpecStarboard == InitStarboard /\ [][NextStarboard]_vars

InitStrokes ==
    SyllInit /\ CmpIdle /\ OptIdle /\ ThIdle /\ OrdIdle
    /\ WordIdle /\ GrIdle /\ CorpusIdle /\ StrokesKbInit /\ ExtIdle
SpecStrokes == InitStrokes /\ [][NextStrokes]_vars

OldIdle ==
    SyllInit /\ CmpIdle /\ OptIdle /\ ThIdle /\ OrdIdle
    /\ WordIdle /\ GrIdle /\ CorpusIdle /\ KbIdle

InitLex == OldIdle /\ LexInit /\ MxIdle /\ SelIdle /\ StkIdle /\ BaseIdle /\ ReplaceIdle /\ LayoutIdle /\ ForkIdle
SpecLex == InitLex /\ [][NextLex]_vars

NextMatrix == NextOrder \/ GenerateBiphonemeOrderMatrix

SpecMatrix == InitOrder /\ [][NextMatrix]_vars

InitSel == OldIdle /\ SelInit /\ LexIdle /\ MxIdle /\ StkIdle /\ BaseIdle /\ ReplaceIdle /\ LayoutIdle /\ ForkIdle
\* the loop is sequential code: its next turn is always taken
SpecSelect == InitSel /\ [][NextSelect]_vars /\ WF_vars(NextSelect)

InitReplace == OldIdle /\ ReplaceInit /\ LexIdle /\ MxIdle /\ SelIdle /\ StkIdle /\ BaseIdle /\ LayoutIdle /\ ForkIdle
\* the loop is sequential code: its next turn is always taken
SpecReplace == InitReplace /\ [][NextReplace]_vars /\ WF_vars(NextReplace)

InitLayout == OldIdle /\ LayoutInit /\ LexIdle /\ MxIdle /\ SelIdle /\ StkIdle /\ BaseIdle /\ ReplaceIdle /\ ForkIdle
SpecLayout == InitLayout /\ [][NextLayout]_vars

InitFork == OldIdle /\ ForkInit /\ LexIdle /\ MxIdle /\ SelIdle /\ StkIdle /\ BaseIdle /\ ReplaceIdle /\ LayoutIdle
\* the parent and the three workers are processes of the operating system:
\* each of them is scheduled again and again
SpecFork ==
    InitFork /\ [][NextFork]_vars /\ WF_vars(ParentStep)
    /\ \A w \in Workers : WF_vars(WorkerStep(w))

InitBase == OldIdle /\ BaseInit /\ LexIdle /\ MxIdle /\ SelIdle /\ StkIdle /\ ReplaceIdle /\ LayoutIdle /\ ForkIdle
SpecBase == InitBase /\ [][NextBase]_vars

\* the loop is sequential code: its next step is always taken
SpecGreedy == InitGreedy /\ [][NextGreedy]_vars /\ WF_vars(NextGreedy)

====
